---- MODULE Spec2Model ----
(***************************************************************************)
(* AI voice detection service (backend/main.py and its helpers).           *)
(*                                                                         *)
(* State: the document store (users, predictions), whether startup        *)
(* connected it, the tokens issued so far, and the last request's          *)
(* response together with the intermediate results of its pipeline.        *)
(* One action per HTTP handler; each handler runs to completion (the       *)
(* handlers are `async def` bodies without an await).  SpecConc splits     *)
(* registration into its three store operations to interleave workers.     *)
(* SpecOutage lets the store's operations fail between requests.           *)
(* SpecExplain and SpecFeatures apply the explainer and the feature        *)
(* vector builder to bounded inputs.  SpecAdapters runs the two            *)
(* persistence adapters side by side on the same operations.               *)
(***************************************************************************)
EXTENDS Integers, Sequences, FiniteSets, TLC

VARIABLES users, predictions, connected, issued, registered, nextKey,
          resp, audio, clf, reg,
          healthy, files, exc,
          expl, fvec,
          usage, fb, today, call,
          job

\* The store answers (healthy), the temporary files left on disk, and the
\* exception detect_voice's except clauses caught for the last request.
envVars == <<healthy, files, exc>>
\* The last calls of generate_explanation and get_feature_vector.
pureVars == <<expl, fvec>>
\* The api_usage_logs collection, the Firestore database, the current day
\* and the last operation run on both adapters.
adapterVars == <<usage, fb, today, call>>

vars == <<users, predictions, connected, issued, registered, nextKey,
          resp, audio, clf, reg, healthy, files, exc, expl, fvec,
          usage, fb, today, call, job>>

(***************************************************************************)
(* Bounds of the model.                                                    *)
(***************************************************************************)
MaxUsers == 2
MaxPredictions == 1
NumWorkers == 2

(***************************************************************************)
(* Program constants.                                                      *)
(***************************************************************************)
TargetSr == 16000
MinPasswordLen == 8

\* 1.0 s and 300.0 s, in samples at the target rate.
MinSamples == 1 * TargetSr
MaxSamples == 300 * TargetSr

\* Probabilities are counted in thousandths; two decimals are tens of them.
ProbScale == 10 * 100
ProbStep == 2 * 5

(***************************************************************************)
(* Values requests are built from.                                         *)
(***************************************************************************)
\* An email as the pieces the registration regex looks for:
\* local "@" domain "." tld.
EmailA == [local |-> "alice", domain |-> "example", tld |-> "com"]
EmailB == [local |-> "bob", domain |-> "example", tld |-> "org"]
EmailNoTld == [local |-> "carol", domain |-> "example", tld |-> "c"]
EmailNoLocal == [local |-> "", domain |-> "example", tld |-> "com"]
Emails == {EmailA, EmailB, EmailNoTld, EmailNoLocal}

\* Passwords a client registers with (one too short for the request schema)
\* and passwords it logs in with (the right one and a wrong one).
RegisterPasswords == {"password-one", "short"}
LoginPasswords == {"password-one", "password-two"}
Salts == {"s1"}

\* Keys are tuples: the process-wide secret, a generated user key, a wrong key.
API_KEY == <<"your-secret-api-key-here">>
WrongKey == <<"not-a-key">>
NoHeader == <<>>

\* Bearer tokens: a signed unexpired JWT for a subject, a JWT that fails
\* verification (expired, forged, garbage), or an API key put in its place.
Jwt(e) == [typ |-> "jwt", sub |-> e, key |-> NoHeader]
BadJwt == [typ |-> "badjwt", sub |-> EmailA, key |-> NoHeader]
KeyToken(k) == [typ |-> "key", sub |-> EmailA, key |-> k]

(***************************************************************************)
(* utils/errors.py                                                         *)
(***************************************************************************)
ERROR_MESSAGES ==
  [c \in {"AUDIO_TOO_SHORT", "AUDIO_TOO_LONG", "UNSUPPORTED_FORMAT",
          "INVALID_BASE64", "DECODE_ERROR", "PROCESSING_ERROR",
          "FEATURE_EXTRACTION_ERROR", "PREDICTION_ERROR", "UNAUTHORIZED",
          "INVALID_CREDENTIALS", "USER_EXISTS", "USER_NOT_FOUND",
          "INVALID_TOKEN", "WEAK_PASSWORD", "INVALID_EMAIL"} |->
     [code |-> c,
      message |->
        CASE c = "AUDIO_TOO_SHORT" -> "Audio must be at least 1 second long"
          [] c = "AUDIO_TOO_LONG" -> "Audio must be less than 60 seconds long"
          [] c = "UNSUPPORTED_FORMAT" -> "Only MP3 format is supported"
          [] c = "INVALID_BASE64" -> "Invalid Base64 encoding"
          [] c = "DECODE_ERROR" -> "Failed to decode audio file"
          [] c = "PROCESSING_ERROR" -> "Failed to process audio"
          [] c = "FEATURE_EXTRACTION_ERROR" -> "Failed to extract audio features"
          [] c = "PREDICTION_ERROR" -> "Failed to make prediction"
          [] c = "UNAUTHORIZED" -> "Invalid or missing authentication"
          [] c = "INVALID_CREDENTIALS" -> "Invalid email or password"
          [] c = "USER_EXISTS" -> "User with this email already exists"
          [] c = "USER_NOT_FOUND" -> "User not found"
          [] c = "INVALID_TOKEN" -> "Invalid or expired token"
          [] c = "WEAK_PASSWORD" -> "Password must be at least 8 characters long"
          [] c = "INVALID_EMAIL" -> "Invalid email format"]]

\* The body of an HTTP error: `error` is "" when the detail is a bare string.
create_error_response(error_code) ==
  LET error_info == IF error_code \in DOMAIN ERROR_MESSAGES
                    THEN ERROR_MESSAGES[error_code]
                    ELSE [code |-> "UNKNOWN_ERROR",
                          message |-> "An unexpected error occurred"]
  IN [kind |-> "body", error |-> error_info.code, message |-> error_info.message]

StringDetail(text) == [kind |-> "string", error |-> "", message |-> text]

HTTPException(status_code, detail) ==
  [raised |-> TRUE, status |-> status_code, detail |-> detail]

(***************************************************************************)
(* utils/auth.py (auth_manager)                                            *)
(***************************************************************************)
hash_password(password, salt) == [algo |-> "bcrypt", salt |-> salt, of |-> password]

verify_password(password, password_hash) == password_hash.of = password

\* The payload of a token that verifies, or nothing.
NoSub == [local |-> "", domain |-> "", tld |-> ""]
decode_access_token(token) ==
  IF token.typ = "jwt" THEN [decoded |-> TRUE, sub |-> token.sub]
  ELSE [decoded |-> FALSE, sub |-> NoSub]

create_access_token(data) == Jwt(data.sub)

generate_api_key(n) == <<"user-key", n>>

(***************************************************************************)
(* utils/audio_processor.py                                                *)
(***************************************************************************)
\* A request payload, described by what each decoding stage makes of it.
Payload(text, b64, mp3, wav, finite, samples) ==
  [text |-> text, base64_ok |-> b64, mp3_ok |-> mp3, wav_ok |-> wav,
   finite |-> finite, samples |-> samples]

SampleCounts == {MinSamples - 1, MinSamples, MaxSamples, MaxSamples + 1}

\* Clips that decode and have a valid length, but on which a stage after the
\* audio processor (feature extraction, scaling, inference) raises.
FailingClips == {"SUQzBA", "SUQzBQ", "SUQzBg", "SUQzBw"}

Payloads ==
  {Payload("", FALSE, FALSE, FALSE, FALSE, 0),
   Payload("!!", FALSE, FALSE, FALSE, FALSE, 0),
   Payload("cmFuZG9t", TRUE, FALSE, FALSE, FALSE, 0),
   Payload("SUQz", TRUE, TRUE, FALSE, FALSE, MinSamples)}
  \cup {Payload("SUQzAw", TRUE, TRUE, TRUE, TRUE, n) : n \in SampleCounts}
  \cup {Payload("SUQzAw", TRUE, TRUE, TRUE, FALSE, MinSamples)}
  \cup {Payload("SUQzAg", TRUE, TRUE, TRUE, TRUE, MinSamples + 1)}
  \cup {Payload(t, TRUE, TRUE, TRUE, TRUE, MinSamples) : t \in FailingClips}

VoiceDetectionError(message, error_code) ==
  [ok |-> FALSE, exc |-> "VoiceDetectionError", error_code |-> error_code,
   message |-> message, samples |-> 0]

\* Any failure of base64 decoding, MP3 parsing, WAV export or WAV load is
\* re-raised as ValueError.  `left` is the temporary files still on disk at
\* exit: the .mp3 is written once the base64 decodes and unlinked by the
\* finally clause; the .wav is created once the MP3 parses and unlinked only
\* after librosa has loaded it.
decode_base64_to_audio(p) ==
  LET created == IF ~p.base64_ok THEN {}
                 ELSE IF ~p.mp3_ok THEN {"mp3"} ELSE {"mp3", "wav"}
      unlinked == (IF p.base64_ok THEN {"mp3"} ELSE {})
                  \cup (IF p.base64_ok /\ p.mp3_ok /\ p.wav_ok THEN {"wav"} ELSE {})
  IN
  IF p.base64_ok /\ p.mp3_ok /\ p.wav_ok
  THEN [ok |-> TRUE, exc |-> "", samples |-> p.samples, sr |-> TargetSr,
        left |-> created \ unlinked]
  ELSE [ok |-> FALSE, exc |-> "ValueError", samples |-> 0, sr |-> TargetSr,
        left |-> created \ unlinked]

\* Trim and RMS-normalise; the signal checks of the DSP library reject a
\* buffer that is not finite.
preprocess_audio(p) ==
  IF p.finite THEN [ok |-> TRUE, exc |-> ""] ELSE [ok |-> FALSE, exc |-> "ParameterError"]

\* duration = len(audio) / sr, compared with 1.0 and 300.0 (exact at this rate).
TooShort(samples, sr) == samples < 1 * sr
\* The cap the AUDIO_TOO_LONG message table names, 60 s.
TooLong_60(samples, sr) == samples > 60 * sr
TooLong(samples, sr) == samples > 300 * sr

\* The decoder's ValueError let through instead of being classified.
process_base64_audio_Unwrapped(p) ==
  LET dec == decode_base64_to_audio(p) IN
  IF ~dec.ok
  THEN [ok |-> FALSE, exc |-> dec.exc, error_code |-> "",
        message |-> "Failed to decode audio", samples |-> 0]
  ELSE IF TooShort(dec.samples, dec.sr)
  THEN VoiceDetectionError("Audio is too short", "AUDIO_TOO_SHORT")
  ELSE IF TooLong(dec.samples, dec.sr)
  THEN VoiceDetectionError("Audio is too long", "AUDIO_TOO_LONG")
  ELSE IF ~preprocess_audio(p).ok
  THEN VoiceDetectionError("Failed to process audio", "PROCESSING_ERROR")
  ELSE [ok |-> TRUE, exc |-> "", error_code |-> "", message |-> "",
        samples |-> dec.samples]

process_base64_audio(p) ==
  LET dec == decode_base64_to_audio(p) IN
  IF ~dec.ok
  THEN VoiceDetectionError("Invalid audio file format", "INVALID_FORMAT")
  ELSE IF TooShort(dec.samples, dec.sr)
  THEN VoiceDetectionError("Audio is too short", "AUDIO_TOO_SHORT")
  ELSE IF TooLong(dec.samples, dec.sr)
  THEN VoiceDetectionError("Audio is too long", "AUDIO_TOO_LONG")
  ELSE IF ~preprocess_audio(p).ok
  THEN VoiceDetectionError("Failed to process audio", "PROCESSING_ERROR")
  ELSE [ok |-> TRUE, exc |-> "", error_code |-> "", message |-> "",
        samples |-> dec.samples]

\* The last call of process_base64_audio: its argument and its outcome.
NoAudio == [called |-> FALSE, payload |-> Payload("", FALSE, FALSE, FALSE, FALSE, 0),
            result |-> [ok |-> FALSE, exc |-> "", error_code |-> "",
                        message |-> "", samples |-> 0],
            left |-> {}]
AudioCall(p) == [called |-> TRUE, payload |-> p, result |-> process_base64_audio(p),
                 left |-> decode_base64_to_audio(p).left]

(***************************************************************************)
(* model/classifier.py                                                     *)
(***************************************************************************)
Labels == {"AI_GENERATED", "HUMAN"}

\* predict_proba of the fitted binary forest: <<P(class 0), P(class 1)>>.
ProbGrid == {125, 500, 1000}
Probabilities == {<<p, ProbScale - p>> : p \in ProbGrid}

\* The forest's probabilities for a clip: one clip for each grid value.
predict_proba(p) ==
  LET first == IF p.text = "SUQzAg" THEN 1000
               ELSE IF p.samples = MinSamples THEN 125
               ELSE 500
  IN CHOOSE pr \in Probabilities : pr[1] = first

\* model.predict: the class of largest probability, the first on a tie.
ModelPredict(probabilities) ==
  IF probabilities[2] > probabilities[1] THEN 1 ELSE 0

\* The class index returned as the label.
predict_Unmapped(probabilities) ==
  LET prediction_label == ModelPredict(probabilities) IN
  [index |-> prediction_label,
   prediction |-> IF prediction_label = 0 THEN "0" ELSE "1",
   confidence |-> probabilities[prediction_label + 1],
   probabilities |-> probabilities]

\* The confidence read at the other class's index.
predict_Swapped(probabilities) ==
  LET prediction_label == ModelPredict(probabilities) IN
  IF prediction_label = 0
  THEN [index |-> prediction_label, prediction |-> "AI_GENERATED",
        confidence |-> probabilities[2], probabilities |-> probabilities]
  ELSE [index |-> prediction_label, prediction |-> "HUMAN",
        confidence |-> probabilities[1], probabilities |-> probabilities]

predict(probabilities) ==
  LET prediction_label == ModelPredict(probabilities) IN
  IF prediction_label = 0
  THEN [index |-> prediction_label, prediction |-> "AI_GENERATED",
        confidence |-> probabilities[1], probabilities |-> probabilities]
  ELSE [index |-> prediction_label, prediction |-> "HUMAN",
        confidence |-> probabilities[2], probabilities |-> probabilities]

\* The last call of predict: the model's outputs and what predict returned.
NoClf == [called |-> FALSE, index |-> 0, input |-> <<0, 0>>,
          result |-> [index |-> 0, prediction |-> "", confidence |-> 0,
                      probabilities |-> <<0, 0>>]]
ClfCall(probabilities) ==
  [called |-> TRUE, index |-> ModelPredict(probabilities),
   input |-> probabilities, result |-> predict(probabilities)]

\* round(confidence, 2): the nearest hundredth; a value halfway between two
\* hundredths goes to either, as the binary float falls.
Round2(c) ==
  LET lo == (c \div ProbStep) * ProbStep
      r == c % ProbStep IN
  IF 2 * r < ProbStep THEN {lo}
  ELSE IF 2 * r > ProbStep THEN {lo + ProbStep}
  ELSE {lo, lo + ProbStep}

(***************************************************************************)
(* utils/db.py (DatabaseManager): the document store                       *)
(***************************************************************************)
NoUser == [email |-> EmailNoLocal, password_hash |-> hash_password("", ""),
           api_key |-> NoHeader, total_requests |-> 0, found |-> FALSE]

Matches(us, field, value) ==
  {i \in 1..Len(us) : IF field = "email" THEN us[i].email = value
                                          ELSE us[i].api_key = value}

\* find_one: the first stored document that matches, or nothing.
find_one(us, field, value) ==
  LET m == Matches(us, field, value) IN
  IF m = {} THEN NoUser
  ELSE LET i == CHOOSE j \in m : \A k \in m : j <= k IN
       [email |-> us[i].email, password_hash |-> us[i].password_hash,
        api_key |-> us[i].api_key, total_requests |-> us[i].total_requests,
        found |-> TRUE]

\* A lookup that never finds the document.
get_user_by_email_Blind(db, us, email) == NoUser

get_user_by_email(db, us, email) ==
  IF ~db THEN NoUser ELSE find_one(us, "email", email)

get_user_by_api_key(db, us, api_key) ==
  IF ~db THEN NoUser ELSE find_one(us, "api_key", api_key)

user_doc(email, password_hash, api_key) ==
  [email |-> email, password_hash |-> password_hash, api_key |-> api_key,
   total_requests |-> 0]

\* create_user writing the new document over the collection.
create_user_Overwrite(db, us, email, password_hash, api_key) ==
  IF ~db THEN [created |-> FALSE, users |-> us]
  ELSE IF find_one(us, "email", email).found
  THEN [created |-> FALSE, users |-> us]
  ELSE [created |-> TRUE,
        users |-> <<user_doc(email, password_hash, api_key)>>]

\* create_user: [created, users]; nothing is created when the store is not
\* connected or a document with the email exists.
create_user(db, us, email, password_hash, api_key) ==
  IF ~db THEN [created |-> FALSE, users |-> us]
  ELSE IF find_one(us, "email", email).found
  THEN [created |-> FALSE, users |-> us]
  ELSE [created |-> TRUE,
        users |-> Append(us, user_doc(email, password_hash, api_key))]

\* An adapter method is given `db`: the collection is set and the call to
\* the store succeeds.  Without it the method returns its empty result, by
\* the None check or by the except clause.

\* log_prediction letting the failure out to its caller.
log_prediction_Raising(db, preds, prediction, confidence, probabilities) ==
  IF ~db THEN [raised |-> TRUE, inserted_id |-> 0, predictions |-> preds]
  ELSE [raised |-> FALSE, inserted_id |-> Len(preds) + 1,
        predictions |-> Append(preds, [prediction |-> prediction,
                                       confidence |-> confidence,
                                       probabilities |-> probabilities])]

\* log_prediction inserting its document twice.
log_prediction_Twice(db, preds, prediction, confidence, probabilities) ==
  IF ~db THEN [raised |-> FALSE, inserted_id |-> 0, predictions |-> preds]
  ELSE LET document == [prediction |-> prediction, confidence |-> confidence,
                        probabilities |-> probabilities]
       IN [raised |-> FALSE, inserted_id |-> Len(preds) + 2,
           predictions |-> Append(Append(preds, document), document)]

\* log_prediction: the inserted id (0 for None) and the collection after the
\* call.
log_prediction(db, preds, prediction, confidence, probabilities) ==
  IF ~db THEN [raised |-> FALSE, inserted_id |-> 0, predictions |-> preds]
  ELSE [raised |-> FALSE, inserted_id |-> Len(preds) + 1,
        predictions |-> Append(preds, [prediction |-> prediction,
                                       confidence |-> confidence,
                                       probabilities |-> probabilities])]

(***************************************************************************)
(* main.py: requests and responses                                         *)
(***************************************************************************)
Anonymous == [local |-> "anonymous", domain |-> "", tld |-> ""]

NoLast == [present |-> FALSE, prediction |-> "", confidence |-> 0]
Last(d) == [present |-> TRUE, prediction |-> d.prediction,
            confidence |-> d.confidence]

\* {} is the record with empty |-> TRUE.
EmptyUserStats ==
  [empty |-> TRUE, total_tests |-> 0, ai_count |-> 0, human_count |-> 0,
   avg_confidence |-> 0, last_prediction |-> NoLast, trend |-> ""]

NoUsageStats == [requests_today |-> 0, total_requests |-> 0]

\* {} from get_statistics is the record with empty |-> TRUE.
EmptyStatistics ==
  [empty |-> TRUE, total_predictions |-> 0, ai_generated_count |-> 0,
   human_count |-> 0, average_confidence |-> 0]

NoOut == [prediction |-> "", confidence |-> 0, log_id |-> 0,
          access_token |-> BadJwt, user_email |-> Anonymous,
          api_key |-> NoHeader, total_requests |-> 0,
          stats |-> EmptyUserStats, usage_stats |-> NoUsageStats,
          total |-> 0, predictions |-> <<>>,
          statistics |-> EmptyStatistics]

NoReq == [authorization |-> NoHeader, api_key |-> NoHeader,
          email |-> Anonymous, password |-> ""]

NoDetail == [kind |-> "none", error |-> "", message |-> ""]

\* `authenticated` and `user`: whether step 1 of detect_voice let the request
\* through, and as whom.
Response(op, req, status, detail, authenticated, user, out) ==
  [op |-> op, req |-> req, status |-> status, detail |-> detail,
   authenticated |-> authenticated, user |-> user, out |-> out]

NoResp == Response("none", NoReq, 0, NoDetail, FALSE, Anonymous, NoOut)

\* authorization.startswith("Bearer "), on the header split at spaces.
StartsWithBearer(authorization) ==
  Len(authorization) >= 2 /\ authorization[1] = "Bearer"

AuthOk(user) == [raised |-> FALSE, status |-> 0, detail |-> NoDetail, user |-> user]
AuthError(status, error_code, user) ==
  HTTPException(status, create_error_response(error_code)) @@ [user |-> user]

\* The api-key header consulted before the Authorization header.
DetectAuth_KeyFirst(db, us, authorization, api_key) ==
  IF api_key # NoHeader
  THEN IF api_key # API_KEY
       THEN LET user == get_user_by_api_key(db, us, api_key) IN
            IF ~user.found THEN AuthError(401, "INVALID_API_KEY", Anonymous)
            ELSE AuthOk(user.email)
       ELSE AuthOk(Anonymous)
  ELSE IF StartsWithBearer(authorization)
  THEN LET payload == decode_access_token(authorization[2]) IN
       IF ~payload.decoded THEN AuthError(401, "INVALID_TOKEN", Anonymous)
       ELSE IF ~get_user_by_email(db, us, payload.sub).found
       THEN AuthError(404, "USER_NOT_FOUND", payload.sub)
       ELSE AuthOk(payload.sub)
  ELSE AuthError(401, "AUTHENTICATION_REQUIRED", Anonymous)

\* detect_voice, step 1: who the request is from, or the HTTPException raised.
DetectAuth(db, us, authorization, api_key) ==
  IF StartsWithBearer(authorization)
  THEN LET token == authorization[2]
           payload == decode_access_token(token) IN
       IF ~payload.decoded
       THEN AuthError(401, "INVALID_TOKEN", Anonymous)
       ELSE IF payload.sub = NoSub
       THEN AuthError(401, "INVALID_TOKEN", Anonymous)
       ELSE IF ~get_user_by_email(db, us, payload.sub).found
       THEN AuthError(404, "USER_NOT_FOUND", payload.sub)
       ELSE AuthOk(payload.sub)
  ELSE IF api_key # NoHeader
  THEN IF api_key # API_KEY
       THEN LET user == get_user_by_api_key(db, us, api_key) IN
            IF ~user.found
            THEN AuthError(401, "INVALID_API_KEY", Anonymous)
            ELSE AuthOk(user.email)
       ELSE AuthOk(Anonymous)
  ELSE AuthError(401, "AUTHENTICATION_REQUIRED", Anonymous)

\* An exception raised inside detect_voice's try block: its class, its text
\* (e.message or str(e)) and, for an HTTPException, its status and detail.
NoExc == [caught |-> FALSE, type |-> "", text |-> "", status |-> 0,
          detail |-> NoDetail]
Raised(type, text) == [caught |-> TRUE, type |-> type, text |-> text,
                       status |-> 0, detail |-> NoDetail]
RaisedHTTP(status_code, detail) ==
  [caught |-> TRUE, type |-> "HTTPException", text |-> "",
   status |-> status_code, detail |-> detail]

\* The stages between the audio processor and the classifier's answer are
\* functions of the clip: what they raise on it, if anything, with the
\* operator-facing text an exception can carry.
later_stages(p) ==
  IF p.text = "SUQzBA" THEN Raised("ValueError", "boom")
  ELSE IF p.text = "SUQzBQ"
  THEN Raised("FileNotFoundError", "/srv/model/voice_classifier.pkl")
  ELSE IF p.text = "SUQzBg" THEN Raised("Exception", "boom")
  ELSE IF p.text = "SUQzBw"
  THEN Raised("Exception", "/srv/model/voice_classifier.pkl")
  ELSE NoExc

\* The 500 clauses answering with the exception's own text.
ExceptionResponse_Verbose(e) ==
  IF e.type = "HTTPException" THEN HTTPException(e.status, e.detail)
  ELSE IF e.type = "VoiceDetectionError" THEN HTTPException(400, StringDetail(e.text))
  ELSE IF e.type = "ValueError" THEN HTTPException(400, StringDetail(e.text))
  ELSE HTTPException(500, StringDetail(e.text))

\* detect_voice's except clauses, in their order: the response for an
\* exception raised inside the try block.
ExceptionResponse(e) ==
  IF e.type = "HTTPException" THEN HTTPException(e.status, e.detail)
  ELSE IF e.type = "VoiceDetectionError" THEN HTTPException(400, StringDetail(e.text))
  ELSE IF e.type = "ValueError" THEN HTTPException(400, StringDetail(e.text))
  ELSE IF e.type = "FileNotFoundError"
  THEN HTTPException(500, StringDetail("Model not initialized. Please contact administrator."))
  ELSE HTTPException(500, StringDetail("An unexpected error occurred"))

\* What a client can put in the headers: tokens it was issued, keys that
\* exist, and junk.
StoredKeys == {users[i].api_key : i \in 1..Len(users)}
Tokens == {BadJwt} \cup {Jwt(e) : e \in issued}
          \cup {KeyToken(k) : k \in {API_KEY} \cup StoredKeys}
AuthHeaders == {NoHeader, <<"Basic", BadJwt>>} \cup {<<"Bearer", t>> : t \in Tokens}
KeyHeaders == {NoHeader, API_KEY, WrongKey} \cup StoredKeys

\* The header pairs of a /detect-voice request: next to a Bearer header the
\* api-key header is absent, wrong or the process-wide key; a user's key comes
\* alone.
HeaderPairs ==
  {hp \in AuthHeaders \X KeyHeaders :
     /\ StartsWithBearer(hp[1]) => hp[2] \notin StoredKeys
     /\ hp[1] = <<"Basic", BadJwt>> => hp[2] \in {NoHeader, API_KEY}}

\* The store is connected and answering.
Up == connected /\ healthy

(***************************************************************************)
(* utils/explainer.py                                                      *)
(***************************************************************************)
\* A key that the features dict does not hold.
Missing == 0 - 1

\* features.get(key, 0)
Get(features, key) == IF key \in DOMAIN features THEN features[key] ELSE 0

categorize_pitch_variance(pitch_variance) ==
  IF pitch_variance < 500 THEN "low"
  ELSE IF pitch_variance < 2000 THEN "medium"
  ELSE "high"

\* Spectral flatness, energy variation and the zero-crossing deviation are
\* counted in thousandths: 0.1 is 100, 0.3 is 300, 0.5 is 500, 1.5 is 1500.
categorize_spectral_smoothness(spectral_flatness) ==
  IF spectral_flatness < 100 THEN "high"
  ELSE IF spectral_flatness < 300 THEN "medium"
  ELSE "low"

\* The ladder with its boundary values in the lower bucket.
categorize_micro_variations_Closed(energy_variation, zcr_std) ==
  LET variation_score == energy_variation + (zcr_std * 10) IN
  IF variation_score <= 500 THEN "absent"
  ELSE IF variation_score <= 1500 THEN "minimal"
  ELSE "present"

categorize_micro_variations(energy_variation, zcr_std) ==
  LET variation_score == energy_variation + (zcr_std * 10) IN
  IF variation_score < 500 THEN "absent"
  ELSE IF variation_score < 1500 THEN "minimal"
  ELSE "present"

generate_explanation(features, prediction) ==
  LET pitch_category == categorize_pitch_variance(Get(features, "pitch_variance"))
      spectral_category ==
        categorize_spectral_smoothness(Get(features, "spectral_flatness_mean"))
      variation_category ==
        categorize_micro_variations(Get(features, "energy_variation"),
                                    Get(features, "zcr_std"))
  IN [pitch_variance |-> pitch_category,
      spectral_smoothness |-> spectral_category,
      micro_variations |-> variation_category]

\* Feature dicts the explainer is given: each of its four keys is missing or
\* holds a value around a threshold.
PitchVarianceValues == {Missing, 499, 500, 1999, 2000}
SpectralFlatnessValues == {Missing, 99, 100, 299, 300}
EnergyVariationValues == {Missing, 100, 399, 400, 1400}
ZcrStdValues == {Missing, 10, 40, 110}

EmptyDict == [k \in {} |-> 0]
Entry(key, value) == IF value = Missing THEN EmptyDict ELSE key :> value
FeatureDict(pv, sf, ev, z) ==
  Entry("pitch_variance", pv) @@ Entry("spectral_flatness_mean", sf)
    @@ Entry("energy_variation", ev) @@ Entry("zcr_std", z)
FeatureDicts ==
  {FeatureDict(pv, sf, ev, z) : pv \in PitchVarianceValues,
                                sf \in SpectralFlatnessValues,
                                ev \in EnergyVariationValues,
                                z \in ZcrStdValues}

\* The last call of generate_explanation.
NoExpl == [called |-> FALSE, features |-> EmptyDict, prediction |-> "",
           result |-> [pitch_variance |-> "", spectral_smoothness |-> "",
                       micro_variations |-> ""]]
ExplCall(features, prediction) ==
  [called |-> TRUE, features |-> features, prediction |-> prediction,
   result |-> generate_explanation(features, prediction)]

(***************************************************************************)
(* model/feature_extractor.py and the name lists of training               *)
(***************************************************************************)
MaxClipBase == 9
MaxClipStep == 6

\* A clip, as the statistics the signal-processing library computes from it,
\* group by group; an unvoiced clip has no pitch candidates.
Clip(b, s, voiced) ==
  [mfcc |-> [i \in 1..5 |-> b + s * i],
   pitch |-> [i \in 1..4 |-> b + s * (5 + i)],
   spectral |-> [i \in 1..6 |-> b + s * (9 + i)],
   energy |-> [i \in 1..5 |-> b + s * (15 + i)],
   temporal |-> [i \in 1..2 |-> b + s * (20 + i)],
   voiced |-> voiced]
Clips == {Clip(b, s, v) : b \in 0..MaxClipBase, s \in 1..MaxClipStep,
                          v \in BOOLEAN}

extract_mfcc_features(a) ==
  [mfcc_mean |-> a.mfcc[1], mfcc_std |-> a.mfcc[2], mfcc_var |-> a.mfcc[3],
   mfcc_max |-> a.mfcc[4], mfcc_min |-> a.mfcc[5]]

extract_pitch_features(a) ==
  IF a.voiced
  THEN [pitch_mean |-> a.pitch[1], pitch_std |-> a.pitch[2],
        pitch_variance |-> a.pitch[3], pitch_range |-> a.pitch[4]]
  ELSE [pitch_mean |-> 0, pitch_std |-> 0, pitch_variance |-> 0,
        pitch_range |-> 0]

extract_spectral_features(a) ==
  [spectral_flatness_mean |-> a.spectral[1],
   spectral_flatness_std |-> a.spectral[2],
   spectral_centroid_mean |-> a.spectral[3],
   spectral_centroid_std |-> a.spectral[4],
   spectral_rolloff_mean |-> a.spectral[5],
   spectral_bandwidth_mean |-> a.spectral[6]]

extract_energy_features(a) ==
  [rms_mean |-> a.energy[1], rms_std |-> a.energy[2],
   rms_variance |-> a.energy[3], zcr_mean |-> a.energy[4],
   zcr_std |-> a.energy[5]]

extract_temporal_features(a) ==
  [energy_variation |-> a.temporal[1], audio_duration |-> a.temporal[2]]

\* dict.update: the keys of the later group win.
Update(features, group) == group @@ features

extract_all_features(a) ==
  Update(Update(Update(Update(Update(EmptyDict,
    extract_mfcc_features(a)),
    extract_pitch_features(a)),
    extract_spectral_features(a)),
    extract_energy_features(a)),
    extract_temporal_features(a))

\* The order with two neighbours exchanged.
feature_order_Swapped ==
  <<"mfcc_mean", "mfcc_std", "mfcc_var", "mfcc_max", "mfcc_min",
    "pitch_mean", "pitch_std", "pitch_range", "pitch_variance",
    "spectral_flatness_mean", "spectral_flatness_std",
    "spectral_centroid_mean", "spectral_centroid_std",
    "spectral_rolloff_mean", "spectral_bandwidth_mean",
    "rms_mean", "rms_std", "rms_variance",
    "zcr_mean", "zcr_std",
    "energy_variation", "audio_duration">>

\* get_feature_vector's feature_order.
feature_order ==
  <<"mfcc_mean", "mfcc_std", "mfcc_var", "mfcc_max", "mfcc_min",
    "pitch_mean", "pitch_std", "pitch_variance", "pitch_range",
    "spectral_flatness_mean", "spectral_flatness_std",
    "spectral_centroid_mean", "spectral_centroid_std",
    "spectral_rolloff_mean", "spectral_bandwidth_mean",
    "rms_mean", "rms_std", "rms_variance",
    "zcr_mean", "zcr_std",
    "energy_variation", "audio_duration">>

\* train_model's feature_names.
train_feature_names ==
  <<"mfcc_mean", "mfcc_std", "mfcc_var", "mfcc_max", "mfcc_min",
    "pitch_mean", "pitch_std", "pitch_variance", "pitch_range",
    "spectral_flatness_mean", "spectral_flatness_std",
    "spectral_centroid_mean", "spectral_centroid_std",
    "spectral_rolloff_mean", "spectral_bandwidth_mean",
    "rms_mean", "rms_std", "rms_variance",
    "zcr_mean", "zcr_std",
    "energy_variation", "audio_duration">>

\* get_feature_importance's feature_names.
importance_feature_names ==
  <<"mfcc_mean", "mfcc_std", "mfcc_var", "mfcc_max", "mfcc_min",
    "pitch_mean", "pitch_std", "pitch_variance", "pitch_range",
    "spectral_flatness_mean", "spectral_flatness_std",
    "spectral_centroid_mean", "spectral_centroid_std",
    "spectral_rolloff_mean", "spectral_bandwidth_mean",
    "rms_mean", "rms_std", "rms_variance",
    "zcr_mean", "zcr_std",
    "energy_variation", "audio_duration">>

\* The keys of generate_ai_voice_features' and generate_human_voice_features'
\* sample dicts, in insertion order (a row is list(sample.values())).
ai_sample_keys ==
  <<"mfcc_mean", "mfcc_std", "mfcc_var", "mfcc_max", "mfcc_min",
    "pitch_mean", "pitch_std", "pitch_variance", "pitch_range",
    "spectral_flatness_mean", "spectral_flatness_std",
    "spectral_centroid_mean", "spectral_centroid_std",
    "spectral_rolloff_mean", "spectral_bandwidth_mean",
    "rms_mean", "rms_std", "rms_variance",
    "zcr_mean", "zcr_std",
    "energy_variation", "audio_duration">>

human_sample_keys ==
  <<"mfcc_mean", "mfcc_std", "mfcc_var", "mfcc_max", "mfcc_min",
    "pitch_mean", "pitch_std", "pitch_variance", "pitch_range",
    "spectral_flatness_mean", "spectral_flatness_std",
    "spectral_centroid_mean", "spectral_centroid_std",
    "spectral_rolloff_mean", "spectral_bandwidth_mean",
    "rms_mean", "rms_std", "rms_variance",
    "zcr_mean", "zcr_std",
    "energy_variation", "audio_duration">>

get_feature_vector(a) ==
  LET features == extract_all_features(a) IN
  [i \in 1..Len(feature_order) |-> features[feature_order[i]]]

\* The last call of get_feature_vector, with the dict detect_voice gets from
\* extract_all_features for the same clip.
NoFvec == [called |-> FALSE, clip |-> Clip(0, 0, FALSE), features |-> EmptyDict,
           vector |-> <<>>]
FvecCall(a) == [called |-> TRUE, clip |-> a,
                features |-> extract_all_features(a),
                vector |-> get_feature_vector(a)]

(***************************************************************************)
(* utils/db.py (DatabaseManager): history, statistics and usage            *)
(***************************************************************************)
MaxUsageLogs == 2
MaxDays == 1

\* limit of a history read: one record, and the default.
Limits == {1, 50}

\* A collection is a sequence in insertion order, which is timestamp order.
RECURSIVE SumConfidence(_)
SumConfidence(docs) ==
  IF docs = <<>> THEN 0
  ELSE docs[1].confidence + SumConfidence(Tail(docs))

CountLabel(docs, label) ==
  Cardinality({i \in 1..Len(docs) : docs[i].prediction = label})

\* Newest first, at most `limit` of them: sort('timestamp', -1).limit(limit).
NewestFirst(docs, limit) ==
  LET n == IF Len(docs) < limit THEN Len(docs) ELSE limit IN
  [i \in 1..n |-> docs[Len(docs) + 1 - i]]

\* round(total / count, 3) on thousandths: the nearest integer, halves to even.
RoundedMean(total, count) ==
  LET q == total \div count
      r == total % count
  IN IF 2 * r < count THEN q
     ELSE IF 2 * r > count THEN q + 1
     ELSE IF q % 2 = 0 THEN q ELSE q + 1

\* find({'user_email': user_email}): documents without the field never match.
ByUser(docs, user_email) ==
  LET Mine(d) == "user_email" \in DOMAIN d /\ d.user_email = user_email
  IN SelectSeq(docs, Mine)

user_prediction_doc(user_email, filename, prediction, confidence) ==
  [user_email |-> user_email, filename |-> filename,
   prediction |-> prediction, confidence |-> confidence]

\* log_user_prediction writes to the same `predictions` collection.
log_user_prediction(db, preds, user_email, filename, prediction, confidence) ==
  IF ~db THEN [inserted |-> FALSE, predictions |-> preds]
  ELSE [inserted |-> TRUE,
        predictions |-> Append(preds, user_prediction_doc(user_email, filename,
                                                          prediction, confidence))]

get_user_history(db, preds, user_email, limit) ==
  IF ~db THEN <<>> ELSE NewestFirst(ByUser(preds, user_email), limit)

get_user_stats(db, preds, user_email) ==
  IF ~db THEN EmptyUserStats
  ELSE
    LET mine == ByUser(preds, user_email)
        total == Len(mine)
    IN
    IF total = 0
    THEN [empty |-> FALSE, total_tests |-> 0, ai_count |-> 0, human_count |-> 0,
          avg_confidence |-> 0, last_prediction |-> NoLast, trend |-> "No data"]
    ELSE
      LET recent_5 == NewestFirst(mine, 10)
          \* averages over 5 compared with a margin of 0.05: sums with 250
          recent_sum == SumConfidence(SubSeq(recent_5, 1, 5))
          previous_sum == SumConfidence(SubSeq(recent_5, 6, 10))
          trend == IF Len(recent_5) >= 10
                   THEN IF recent_sum > previous_sum + 250 THEN "Improving"
                        ELSE IF recent_sum < previous_sum - 250 THEN "Declining"
                        ELSE "Stable"
                   ELSE "Stable"
      IN [empty |-> FALSE, total_tests |-> total,
          ai_count |-> CountLabel(mine, "AI_GENERATED"),
          human_count |-> CountLabel(mine, "HUMAN"),
          avg_confidence |-> RoundedMean(SumConfidence(mine), total),
          last_prediction |-> Last(mine[total]),
          trend |-> trend]

get_statistics(db, preds) ==
  IF ~db THEN EmptyStatistics
  ELSE [empty |-> FALSE, total_predictions |-> Len(preds),
        ai_generated_count |-> CountLabel(preds, "AI_GENERATED"),
        human_count |-> CountLabel(preds, "HUMAN"),
        average_confidence |-> IF preds = <<>> THEN 0
                               ELSE RoundedMean(SumConfidence(preds), Len(preds))]

usage_doc(user_email, endpoint, status, day) ==
  [user_email |-> user_email, endpoint |-> endpoint, status |-> status,
   day |-> day]

\* update_one({'email': ...}, {'$inc': {'total_requests': 1}}): the first match.
IncrementRequests(us, user_email) ==
  LET m == Matches(us, "email", user_email) IN
  IF m = {} THEN us
  ELSE LET i == CHOOSE j \in m : \A k \in m : j <= k IN
       [us EXCEPT ![i].total_requests = @ + 1]

log_api_usage(db, us, logs, user_email, endpoint, status, day) ==
  IF ~db THEN [inserted |-> FALSE, usage |-> logs, users |-> us]
  ELSE [inserted |-> TRUE,
        usage |-> Append(logs, usage_doc(user_email, endpoint, status, day)),
        users |-> IncrementRequests(us, user_email)]

CountUsage(logs, user_email, since) ==
  Cardinality({i \in 1..Len(logs) :
                 logs[i].user_email = user_email /\ logs[i].day >= since})

get_usage_stats(db, logs, user_email, day) ==
  IF ~db THEN NoUsageStats
  ELSE [requests_today |-> CountUsage(logs, user_email, day),
        total_requests |-> CountUsage(logs, user_email, 0)]

(***************************************************************************)
(* utils/firebase_db.py (FirebaseManager).  `conn`: self.db is set; `ok`:  *)
(* the Firestore call succeeds.  A result says whether the method raised.  *)
(***************************************************************************)
NoFb == [users |-> <<>>, predictions |-> <<>>, usage |-> <<>>]

Returned(value) == [raised |-> FALSE, value |-> value]
Raises(value) == [raised |-> TRUE, value |-> value]

fb_create_user(conn, ok, us, email, password_hash, api_key) ==
  IF ~conn THEN [result |-> Raises(FALSE), users |-> us]
  ELSE IF ~ok THEN [result |-> Returned(FALSE), users |-> us]
  ELSE IF find_one(us, "email", email).found
  THEN [result |-> Returned(FALSE), users |-> us]
  ELSE [result |-> Returned(TRUE),
        users |-> Append(us, user_doc(email, password_hash, api_key))]

fb_get_user_by_email(conn, ok, us, email) ==
  IF ~conn THEN Raises(NoUser)
  ELSE IF ~ok THEN Returned(NoUser)
  ELSE Returned(find_one(us, "email", email))

fb_get_user_by_api_key(conn, ok, us, api_key) ==
  IF ~conn \/ ~ok THEN Returned(NoUser)
  ELSE Returned(find_one(us, "api_key", api_key))

fb_log_prediction(conn, ok, preds, prediction, confidence, probabilities) ==
  IF ~conn \/ ~ok THEN [result |-> Returned(FALSE), predictions |-> preds]
  ELSE [result |-> Returned(TRUE),
        predictions |-> Append(preds, [prediction |-> prediction,
                                       confidence |-> confidence,
                                       probabilities |-> probabilities])]

fb_log_user_prediction(conn, ok, preds, user_email, filename, prediction, confidence) ==
  IF ~conn \/ ~ok THEN [result |-> Returned(FALSE), predictions |-> preds]
  ELSE [result |-> Returned(TRUE),
        predictions |-> Append(preds, user_prediction_doc(user_email, filename,
                                                          prediction, confidence))]

\* Every document that is not AI_GENERATED is counted as human.
fb_get_statistics(conn, ok, preds) ==
  IF ~conn \/ ~ok THEN Returned(EmptyStatistics)
  ELSE LET total == Len(preds)
           ai_count == CountLabel(preds, "AI_GENERATED")
       IN Returned([empty |-> FALSE, total_predictions |-> total,
                    ai_generated_count |-> ai_count,
                    human_count |-> total - ai_count,
                    average_confidence |->
                      IF total > 0 THEN RoundedMean(SumConfidence(preds), total)
                      ELSE 0])

fb_get_user_history(conn, ok, preds, user_email, limit) ==
  IF ~conn \/ ~ok THEN Returned(<<>>)
  ELSE Returned(NewestFirst(ByUser(preds, user_email), limit))

\* The trend is the constant 'Stable'.
fb_get_user_stats(conn, ok, preds, user_email) ==
  IF ~conn \/ ~ok THEN Returned(EmptyUserStats)
  ELSE
    LET mine == ByUser(preds, user_email)
        total == Len(mine)
        ai_count == CountLabel(mine, "AI_GENERATED")
    IN
    IF total = 0
    THEN Returned([empty |-> FALSE, total_tests |-> 0, ai_count |-> 0,
                   human_count |-> 0, avg_confidence |-> 0,
                   last_prediction |-> NoLast, trend |-> "No data"])
    ELSE Returned([empty |-> FALSE, total_tests |-> total,
                   ai_count |-> ai_count,
                   human_count |-> total - ai_count,
                   avg_confidence |-> RoundedMean(SumConfidence(mine), total),
                   last_prediction |-> Last(mine[total]),
                   trend |-> "Stable"])

fb_log_api_usage(conn, ok, us, logs, user_email, endpoint, status, day) ==
  IF ~conn \/ ~ok
  THEN [result |-> Returned(FALSE), usage |-> logs, users |-> us]
  ELSE [result |-> Returned(TRUE),
        usage |-> Append(logs, usage_doc(user_email, endpoint, status, day)),
        users |-> IncrementRequests(us, user_email)]

fb_get_usage_stats(conn, ok, logs, user_email, day) ==
  IF ~conn \/ ~ok THEN Returned([requests_today |-> 0, total_requests |-> 0])
  ELSE Returned([requests_today |-> CountUsage(logs, user_email, day),
                 total_requests |-> CountUsage(logs, user_email, 0)])

\* The last operation run on both adapters and what each answered.
NoCall == [op |-> "none", mongo |-> Returned(FALSE), firebase |-> Returned(FALSE)]
Call(op, mongo, firebase) == [op |-> op, mongo |-> mongo, firebase |-> firebase]

(***************************************************************************)
(* main.py: the handlers                                                   *)
(***************************************************************************)
\* An adapter call in flight: the operation, the adapter it runs on, where it
\* stands, and what it has read so far.
NoJob == [op |-> "none", adapter |-> "", pc |-> "idle", seen |-> 0,
          failed |-> FALSE, total |-> 0, ai_count |-> 0, human_count |-> 0]

Idle == [pc |-> "idle", email |-> Anonymous, password_hash |-> hash_password("", ""),
         api_key |-> NoHeader]

Init ==
  /\ users = <<>>
  /\ predictions = <<>>
  /\ connected \in BOOLEAN
  /\ issued = {}
  /\ registered = {}
  /\ nextKey = 1
  /\ resp = NoResp
  /\ audio = NoAudio
  /\ clf = NoClf
  /\ reg = [w \in 1..NumWorkers |-> Idle]
  /\ healthy = TRUE
  /\ files = {}
  /\ exc = NoExc
  /\ expl = NoExpl
  /\ fvec = NoFvec
  /\ usage = <<>>
  /\ fb = NoFb
  /\ today = 0
  /\ call = NoCall
  /\ job = [w \in 1..NumWorkers |-> NoJob]

\* POST /detect-voice
DetectVoice ==
  \E hp \in HeaderPairs :
  \E auth \in {DetectAuth(Up, users, hp[1], hp[2])} :
    LET authorization == hp[1]
        api_key == hp[2]
        req == [NoReq EXCEPT !.authorization = authorization,
                             !.api_key = api_key]
        Reply(status, detail, out) ==
          resp' = Response("detect", req, status, detail, ~auth.raised,
                           auth.user, out)
        Fail(e) ==
          /\ exc' = e
          /\ Reply(ExceptionResponse(e).status, ExceptionResponse(e).detail, NoOut)
    IN
    /\ UNCHANGED <<users, connected, issued, registered, nextKey, reg, healthy>>
    /\ UNCHANGED <<pureVars, adapterVars, job>>
    /\ IF auth.raised
       THEN /\ Fail(RaisedHTTP(auth.status, auth.detail))
            /\ audio' = NoAudio /\ clf' = NoClf
            /\ UNCHANGED <<predictions, files>>
       ELSE \E p \in Payloads :
         IF p.text = ""
         THEN /\ Fail(RaisedHTTP(400, create_error_response("MISSING_AUDIO")))
              /\ audio' = NoAudio /\ clf' = NoClf
              /\ UNCHANGED <<predictions, files>>
         ELSE
           /\ audio' = AudioCall(p)
           /\ files' = files \cup audio'.left
           /\ IF ~audio'.result.ok
              THEN /\ Fail(Raised(audio'.result.exc, audio'.result.message))
                   /\ clf' = NoClf
                   /\ UNCHANGED predictions
              ELSE \E stage \in {later_stages(p)} :
                IF stage.caught
                THEN /\ Fail(stage)
                     /\ clf' = NoClf
                     /\ UNCHANGED predictions
                ELSE \E probabilities \in {predict_proba(p)} :
                  /\ clf' = ClfCall(probabilities)
                  /\ Up => Len(predictions) < MaxPredictions
                  /\ \E logged \in {log_prediction(Up, predictions,
                                       clf'.result.prediction,
                                       clf'.result.confidence,
                                       clf'.result.probabilities)} :
                       IF logged.raised
                       THEN /\ Fail(Raised("Exception", "insert failed"))
                            /\ UNCHANGED predictions
                       ELSE
                         /\ predictions' = logged.predictions
                         /\ \E rounded \in Round2(clf'.result.confidence) :
                              IF 0 <= rounded /\ rounded <= ProbScale
                              THEN /\ exc' = NoExc
                                   /\ Reply(200, NoDetail,
                                        [NoOut EXCEPT
                                           !.prediction = clf'.result.prediction,
                                           !.confidence = rounded,
                                           !.log_id = logged.inserted_id])
                              ELSE Fail(Raised("ValueError", "ValidationError"))

\* ^[a-zA-Z0-9._%+-]+@[a-zA-Z0-9.-]+\.[a-zA-Z]{2,}$
EmailRegexMatch(email) ==
  Len(email.local) >= 1 /\ Len(email.domain) >= 1 /\ Len(email.tld) >= 2

\* POST /auth/register
RegisterUser ==
  \E email \in Emails, password \in RegisterPasswords, salt \in Salts :
    LET req == [NoReq EXCEPT !.email = email, !.password = password]
        Reply(status, detail, out) ==
          resp' = Response("register", req, status, detail, FALSE, Anonymous, out)
        Fail(status, detail) ==
          /\ Reply(status, detail, NoOut)
          /\ UNCHANGED <<users, issued, registered, nextKey>>
    IN
    /\ UNCHANGED <<predictions, connected, reg, healthy, files>>
    /\ UNCHANGED <<pureVars, adapterVars, job>>
    /\ audio' = NoAudio /\ clf' = NoClf /\ exc' = NoExc
    /\ IF Len(password) < MinPasswordLen
       THEN Fail(422, StringDetail("string_too_short"))
       ELSE IF ~EmailRegexMatch(email)
       THEN Fail(400, create_error_response("INVALID_EMAIL"))
       ELSE IF get_user_by_email(Up, users, email).found
       THEN Fail(400, create_error_response("USER_EXISTS"))
       ELSE \E made \in {create_user(Up, users, email,
                                      hash_password(password, salt),
                                      generate_api_key(nextKey))} :
            IF ~made.created
            THEN Fail(500, StringDetail("Failed to create user"))
            ELSE /\ Len(users) < MaxUsers
                 /\ users' = made.users
                 /\ nextKey' = nextKey + 1
                 /\ issued' = issued \cup {email}
                 /\ registered' = registered \cup {email}
                 /\ Reply(201, NoDetail,
                      [NoOut EXCEPT
                         !.access_token = create_access_token([sub |-> email]),
                         !.user_email = email,
                         !.api_key = generate_api_key(nextKey)])

\* A missing account reported as such.
LoginResult_Leaky(db, us, email, password) ==
  LET user == get_user_by_email(db, us, email) IN
  IF ~user.found
  THEN HTTPException(404, create_error_response("USER_NOT_FOUND"))
       @@ [out |-> NoOut]
  ELSE IF ~verify_password(password, user.password_hash)
  THEN HTTPException(401, create_error_response("INVALID_CREDENTIALS"))
       @@ [out |-> NoOut]
  ELSE [raised |-> FALSE, status |-> 200, detail |-> NoDetail,
        out |-> [NoOut EXCEPT
                   !.access_token = create_access_token([sub |-> user.email]),
                   !.user_email = user.email,
                   !.api_key = user.api_key]]

\* A login that answers with a key other than the stored one.
LoginResult_NewKey(db, us, email, password) ==
  LET user == get_user_by_email(db, us, email) IN
  IF ~user.found
  THEN HTTPException(401, create_error_response("INVALID_CREDENTIALS"))
       @@ [out |-> NoOut]
  ELSE IF ~verify_password(password, user.password_hash)
  THEN HTTPException(401, create_error_response("INVALID_CREDENTIALS"))
       @@ [out |-> NoOut]
  ELSE [raised |-> FALSE, status |-> 200, detail |-> NoDetail,
        out |-> [NoOut EXCEPT
                   !.access_token = create_access_token([sub |-> user.email]),
                   !.user_email = user.email,
                   !.api_key = WrongKey]]

\* login_user: the response to a login request.
LoginResult(db, us, email, password) ==
  LET user == get_user_by_email(db, us, email) IN
  IF ~user.found
  THEN HTTPException(401, create_error_response("INVALID_CREDENTIALS"))
       @@ [out |-> NoOut]
  ELSE IF ~verify_password(password, user.password_hash)
  THEN HTTPException(401, create_error_response("INVALID_CREDENTIALS"))
       @@ [out |-> NoOut]
  ELSE [raised |-> FALSE, status |-> 200, detail |-> NoDetail,
        out |-> [NoOut EXCEPT
                   !.access_token = create_access_token([sub |-> user.email]),
                   !.user_email = user.email,
                   !.api_key = user.api_key]]

\* POST /auth/login
LoginUser ==
  \E email \in Emails, password \in LoginPasswords :
  \E r \in {LoginResult(Up, users, email, password)} :
    LET req == [NoReq EXCEPT !.email = email, !.password = password]
    IN
    /\ resp' = Response("login", req, r.status, r.detail, FALSE, Anonymous, r.out)
    /\ issued' = IF r.raised THEN issued ELSE issued \cup {r.out.user_email}
    /\ audio' = NoAudio /\ clf' = NoClf /\ exc' = NoExc
    /\ UNCHANGED <<users, predictions, connected, registered, nextKey, reg,
                   healthy, files>>
    /\ UNCHANGED <<pureVars, adapterVars, job>>

Next == DetectVoice \/ RegisterUser \/ LoginUser

Spec == Init /\ [][Next]_vars

(***************************************************************************)
(* The same handlers with a store that can stop answering: while it is     *)
(* down every call to it raises inside the adapter's try block.            *)
(***************************************************************************)
StoreFails ==
  /\ connected /\ healthy
  /\ healthy' = FALSE
  /\ UNCHANGED <<users, predictions, connected, issued, registered, nextKey,
                 resp, audio, clf, reg, files, exc>>
  /\ UNCHANGED <<pureVars, adapterVars, job>>

StoreRecovers ==
  /\ connected /\ ~healthy
  /\ healthy' = TRUE
  /\ UNCHANGED <<users, predictions, connected, issued, registered, nextKey,
                 resp, audio, clf, reg, files, exc>>
  /\ UNCHANGED <<pureVars, adapterVars, job>>

NextOutage == Next \/ StoreFails \/ StoreRecovers

SpecOutage == Init /\ [][NextOutage]_vars

(***************************************************************************)
(* main.py: the endpoints behind get_current_user                          *)
(***************************************************************************)
\* str.lower() on the scheme names a client sends.
Lower(s) == IF s \in {"Bearer", "bearer"} THEN "bearer"
            ELSE IF s = "Basic" THEN "basic" ELSE s

CurrentUser(user) ==
  [raised |-> FALSE, status |-> 0, detail |-> NoDetail, user |-> user]
CurrentUserError(status, error_code) ==
  HTTPException(status, create_error_response(error_code)) @@ [user |-> NoUser]

\* The scheme of the header left unchecked.
get_current_user_AnyScheme(db, us, authorization) ==
  IF Len(authorization) = 0 THEN CurrentUserError(401, "UNAUTHORIZED")
  ELSE IF Len(authorization) # 2
  THEN CurrentUserError(401, "INVALID_TOKEN")
  ELSE LET payload == decode_access_token(authorization[2]) IN
       IF ~payload.decoded THEN CurrentUserError(401, "INVALID_TOKEN")
       ELSE IF payload.sub = NoSub THEN CurrentUserError(401, "INVALID_TOKEN")
       ELSE LET user == get_user_by_email(db, us, payload.sub) IN
            IF ~user.found THEN CurrentUserError(404, "USER_NOT_FOUND")
            ELSE CurrentUser(user)

\* The header is the sequence authorization.split() makes of it.
get_current_user(db, us, authorization) ==
  IF Len(authorization) = 0 THEN CurrentUserError(401, "UNAUTHORIZED")
  ELSE IF Len(authorization) # 2 \/ Lower(authorization[1]) # "bearer"
  THEN CurrentUserError(401, "INVALID_TOKEN")
  ELSE LET payload == decode_access_token(authorization[2]) IN
       IF ~payload.decoded THEN CurrentUserError(401, "INVALID_TOKEN")
       ELSE IF payload.sub = NoSub THEN CurrentUserError(401, "INVALID_TOKEN")
       ELSE LET user == get_user_by_email(db, us, payload.sub) IN
            IF ~user.found THEN CurrentUserError(404, "USER_NOT_FOUND")
            ELSE CurrentUser(user)

\* Authorization headers sent to these endpoints.
AccountHeaders ==
  {NoHeader, <<"Bearer">>, <<"Bearer", BadJwt>>}
  \cup {<<s, Jwt(e)>> : s \in {"Bearer", "bearer", "Basic"}, e \in issued}
  \cup {<<"Bearer", Jwt(e), "x">> : e \in issued}

AccountOps == {"me", "dashboard_stats", "dashboard_history"}

AccountFrame ==
  /\ audio' = NoAudio /\ clf' = NoClf /\ exc' = NoExc
  /\ UNCHANGED <<users, predictions, connected, issued, registered, nextKey,
                 reg, healthy, files>>
  /\ UNCHANGED <<pureVars, adapterVars, job>>

\* GET /auth/me
GetMe ==
  \E authorization \in AccountHeaders :
  \E current_user \in {get_current_user(Up, users, authorization)} :
    LET req == [NoReq EXCEPT !.authorization = authorization] IN
    /\ resp' =
         IF current_user.raised
         THEN Response("me", req, current_user.status, current_user.detail,
                       FALSE, Anonymous, NoOut)
         ELSE Response("me", req, 200, NoDetail, TRUE, current_user.user.email,
                       [NoOut EXCEPT
                          !.user_email = current_user.user.email,
                          !.api_key = current_user.user.api_key,
                          !.total_requests = current_user.user.total_requests])
    /\ AccountFrame

\* GET /dashboard/stats
DashboardStats ==
  \E authorization \in AccountHeaders :
  \E current_user \in {get_current_user(Up, users, authorization)} :
    LET req == [NoReq EXCEPT !.authorization = authorization]
        user_email == current_user.user.email
    IN
    /\ resp' =
         IF current_user.raised
         THEN Response("dashboard_stats", req, current_user.status,
                       current_user.detail, FALSE, Anonymous, NoOut)
         ELSE Response("dashboard_stats", req, 200, NoDetail, TRUE, user_email,
                       [NoOut EXCEPT
                          !.stats = get_user_stats(Up, predictions, user_email),
                          !.usage_stats =
                             get_usage_stats(Up, usage, user_email, today),
                          !.total_requests =
                             get_usage_stats(Up, usage, user_email,
                                             today).total_requests,
                          !.api_key = current_user.user.api_key])
    /\ AccountFrame

\* GET /dashboard/history?limit=
DashboardHistory ==
  \E authorization \in AccountHeaders, limit \in Limits :
  \E current_user \in {get_current_user(Up, users, authorization)} :
    LET req == [NoReq EXCEPT !.authorization = authorization]
        user_email == current_user.user.email
        history == get_user_history(Up, predictions, user_email, limit)
    IN
    /\ resp' =
         IF current_user.raised
         THEN Response("dashboard_history", req, current_user.status,
                       current_user.detail, FALSE, Anonymous, NoOut)
         ELSE Response("dashboard_history", req, 200, NoDetail, TRUE,
                       user_email,
                       [NoOut EXCEPT !.total = Len(history),
                                     !.predictions = history])
    /\ AccountFrame

\* Accounts are made by register_user and login_user only; detect_voice
\* writes no user, token or usage record.
NextAccount ==
  \/ RegisterUser \/ LoginUser \/ StoreFails \/ StoreRecovers
  \/ GetMe \/ DashboardStats \/ DashboardHistory

SpecAccount == Init /\ [][NextAccount]_vars

(***************************************************************************)
(* main.py: GET /stats behind verify_api_key                                *)
(***************************************************************************)
\* The key of a registered user accepted next to the process-wide one.
verify_api_key_UserKeys(us, authorization) ==
  IF Len(authorization) = 0
  THEN HTTPException(401, StringDetail("Authorization header missing"))
  ELSE IF Len(authorization) # 2 \/ Lower(authorization[1]) # "bearer"
  THEN HTTPException(401, StringDetail(
         "Invalid authorization header format. Expected: Bearer <api_key>"))
  ELSE IF authorization[2].key # API_KEY
          /\ \A i \in 1..Len(us) : us[i].api_key # authorization[2].key
  THEN HTTPException(401, StringDetail("Invalid API key"))
  ELSE [raised |-> FALSE, status |-> 0, detail |-> NoDetail]

\* provided_key is the second part of the header; of a JWT it is the token
\* text, which is not the secret.
verify_api_key(us, authorization) ==
  IF Len(authorization) = 0
  THEN HTTPException(401, StringDetail("Authorization header missing"))
  ELSE IF Len(authorization) # 2 \/ Lower(authorization[1]) # "bearer"
  THEN HTTPException(401, StringDetail(
         "Invalid authorization header format. Expected: Bearer <api_key>"))
  ELSE IF authorization[2].key # API_KEY
  THEN HTTPException(401, StringDetail("Invalid API key"))
  ELSE [raised |-> FALSE, status |-> 0, detail |-> NoDetail]

\* Authorization headers sent to /stats.
StatsHeaders ==
  {NoHeader, <<"Bearer">>, <<"Bearer", KeyToken(API_KEY), "x">>}
  \cup {<<s, KeyToken(API_KEY)>> : s \in {"Bearer", "bearer", "Basic"}}
  \cup {<<"Bearer", KeyToken(k)>> : k \in {WrongKey} \cup StoredKeys}
  \cup {<<"Bearer", Jwt(e)>> : e \in issued}

\* GET /stats
GetStats ==
  \E authorization \in StatsHeaders :
  \E api_key \in {verify_api_key(users, authorization)} :
    LET req == [NoReq EXCEPT !.authorization = authorization] IN
    /\ resp' =
         IF api_key.raised
         THEN Response("stats", req, api_key.status, api_key.detail,
                       FALSE, Anonymous, NoOut)
         ELSE Response("stats", req, 200, NoDetail, TRUE, Anonymous,
                       [NoOut EXCEPT
                          !.statistics = get_statistics(Up, predictions)])
    /\ AccountFrame

NextStats == Next \/ GetStats

SpecStats == Init /\ [][NextStats]_vars

(***************************************************************************)
(* Registration by several workers on one store.  Each of the handler's    *)
(* three store operations is one step: get_user_by_email in register_user, *)
(* then find_one and insert_one in create_user.  The API key is random, so *)
(* it is drawn where it is stored.                                         *)
(***************************************************************************)
Workers == 1..NumWorkers

RegCheck(w) ==
  /\ reg[w].pc = "idle"
  /\ \E email \in Emails, password \in RegisterPasswords, salt \in Salts :
       LET req == [NoReq EXCEPT !.email = email, !.password = password]
           Fail(status, detail) ==
             /\ resp' = Response("register", req, status, detail, FALSE,
                                 Anonymous, NoOut)
             /\ UNCHANGED reg
       IN
       IF Len(password) < MinPasswordLen
       THEN Fail(422, StringDetail("string_too_short"))
       ELSE IF ~EmailRegexMatch(email)
       THEN Fail(400, create_error_response("INVALID_EMAIL"))
       ELSE IF get_user_by_email(connected, users, email).found
       THEN Fail(400, create_error_response("USER_EXISTS"))
       ELSE /\ reg' = [reg EXCEPT ![w] =
                         [pc |-> "create", email |-> email,
                          password_hash |-> hash_password(password, salt),
                          api_key |-> NoHeader]]
            /\ UNCHANGED resp
  /\ UNCHANGED <<users, predictions, connected, issued, registered, nextKey,
                 audio, clf>>
  /\ UNCHANGED <<envVars, pureVars, adapterVars, job>>

RegFind(w) ==
  /\ reg[w].pc = "create"
  /\ IF ~connected \/ find_one(users, "email", reg[w].email).found
     THEN /\ resp' = Response("register",
                        [NoReq EXCEPT !.email = reg[w].email], 500,
                        StringDetail("Failed to create user"), FALSE,
                        Anonymous, NoOut)
          /\ reg' = [reg EXCEPT ![w] = Idle]
     ELSE /\ reg' = [reg EXCEPT ![w].pc = "insert"]
          /\ UNCHANGED resp
  /\ UNCHANGED <<users, predictions, connected, issued, registered, nextKey,
                 audio, clf>>
  /\ UNCHANGED <<envVars, pureVars, adapterVars, job>>

RegInsert(w) ==
  /\ reg[w].pc = "insert"
  /\ Len(users) < MaxUsers
  /\ users' = Append(users, user_doc(reg[w].email, reg[w].password_hash,
                                      generate_api_key(nextKey)))
  /\ nextKey' = nextKey + 1
  /\ issued' = issued \cup {reg[w].email}
  /\ registered' = registered \cup {reg[w].email}
  /\ resp' = Response("register", [NoReq EXCEPT !.email = reg[w].email], 201,
                      NoDetail, FALSE, Anonymous,
                      [NoOut EXCEPT
                         !.access_token = create_access_token([sub |-> reg[w].email]),
                         !.user_email = reg[w].email,
                         !.api_key = generate_api_key(nextKey)])
  /\ reg' = [reg EXCEPT ![w] = Idle]
  /\ UNCHANGED <<predictions, connected, audio, clf>>
  /\ UNCHANGED <<envVars, pureVars, adapterVars, job>>

NextConc == \E w \in Workers : RegCheck(w) \/ RegFind(w) \/ RegInsert(w)

SpecConc == Init /\ [][NextConc]_vars

(***************************************************************************)
(* The explainer and the feature vector builder applied to bounded inputs. *)
(***************************************************************************)
GenerateExplanation ==
  /\ \E features \in FeatureDicts, prediction \in Labels :
       expl' = ExplCall(features, prediction)
  /\ UNCHANGED <<users, predictions, connected, issued, registered, nextKey,
                 resp, audio, clf, reg, fvec>>
  /\ UNCHANGED <<envVars, adapterVars, job>>

NextExplain == GenerateExplanation

SpecExplain == Init /\ [][NextExplain]_vars

GetFeatureVector ==
  /\ \E a \in Clips : fvec' = FvecCall(a)
  /\ UNCHANGED <<users, predictions, connected, issued, registered, nextKey,
                 resp, audio, clf, reg, expl>>
  /\ UNCHANGED <<envVars, adapterVars, job>>

NextFeatures == GetFeatureVector

SpecFeatures == Init /\ [][NextFeatures]_vars

(***************************************************************************)
(* The two adapters side by side: every operation is run on DatabaseManager *)
(* (users, predictions, usage) and on FirebaseManager (fb) with the same   *)
(* arguments, the same connected status and the same outcome `ok` of the   *)
(* underlying call, starting from equal stored data.                       *)
(***************************************************************************)
AdapterEmails == {EmailA, EmailB}
ConfidenceValues == {200, 900}

\* Ten predictions of one user, the five newest more confident.
ImprovingHistory ==
  [i \in 1..10 |->
     user_prediction_doc(EmailA, "clip.mp3", "HUMAN", IF i <= 5 THEN 200 ELSE 900)]
StoredHistories == {<<>>, ImprovingHistory}

InitAdapters ==
  /\ users = <<>>
  /\ predictions \in StoredHistories
  /\ connected \in BOOLEAN
  /\ issued = {}
  /\ registered = {}
  /\ nextKey = 1
  /\ resp = NoResp
  /\ audio = NoAudio
  /\ clf = NoClf
  /\ reg = [w \in 1..NumWorkers |-> Idle]
  /\ healthy = TRUE
  /\ files = {}
  /\ exc = NoExc
  /\ expl = NoExpl
  /\ fvec = NoFvec
  /\ usage = <<>>
  /\ fb = [NoFb EXCEPT !.predictions = predictions]
  /\ today = 0
  /\ call = NoCall
  /\ job = [w \in 1..NumWorkers |-> NoJob]

AdapterFrame ==
  /\ UNCHANGED <<connected, issued, registered, resp, audio, clf, reg>>
  /\ UNCHANGED <<envVars, pureVars, job>>

AdCreateUser ==
  \E email \in AdapterEmails, ok \in BOOLEAN :
  \E m \in {create_user(connected /\ ok, users, email,
                         hash_password("password-one", "s1"),
                         generate_api_key(nextKey))},
     f \in {fb_create_user(connected, ok, fb.users, email,
                            hash_password("password-one", "s1"),
                            generate_api_key(nextKey))} :
    /\ Len(users) < MaxUsers /\ Len(fb.users) < MaxUsers
    /\ users' = m.users
    /\ fb' = [fb EXCEPT !.users = f.users]
    /\ nextKey' = IF m.created \/ f.result.value THEN nextKey + 1 ELSE nextKey
    /\ call' = Call("create_user", Returned(m.created), f.result)
    /\ UNCHANGED <<predictions, usage, today>>
    /\ AdapterFrame

AdGetUserByEmail ==
  \E email \in AdapterEmails, ok \in BOOLEAN :
    /\ call' = Call("get_user_by_email",
                    Returned(get_user_by_email(connected /\ ok, users, email)),
                    fb_get_user_by_email(connected, ok, fb.users, email))
    /\ UNCHANGED <<users, predictions, usage, fb, today, nextKey>>
    /\ AdapterFrame

AdGetUserByApiKey ==
  \E api_key \in {WrongKey} \cup StoredKeys, ok \in BOOLEAN :
    /\ call' = Call("get_user_by_api_key",
                    Returned(get_user_by_api_key(connected /\ ok, users, api_key)),
                    fb_get_user_by_api_key(connected, ok, fb.users, api_key))
    /\ UNCHANGED <<users, predictions, usage, fb, today, nextKey>>
    /\ AdapterFrame

AdLogPrediction ==
  \E probabilities \in Probabilities, ok \in BOOLEAN :
  \E r \in {predict(probabilities)} :
  \E m \in {log_prediction(connected /\ ok, predictions, r.prediction,
                            r.confidence, r.probabilities)},
     f \in {fb_log_prediction(connected, ok, fb.predictions, r.prediction,
                               r.confidence, r.probabilities)} :
    /\ Len(predictions) < MaxPredictions
    /\ Len(fb.predictions) < MaxPredictions
    /\ predictions' = m.predictions
    /\ fb' = [fb EXCEPT !.predictions = f.predictions]
    /\ call' = Call("log_prediction",
                    [raised |-> m.raised, value |-> m.inserted_id # 0], f.result)
    /\ UNCHANGED <<users, usage, today, nextKey>>
    /\ AdapterFrame

AdLogUserPrediction ==
  \E email \in AdapterEmails, prediction \in Labels,
     confidence \in ConfidenceValues, ok \in BOOLEAN :
  \E m \in {log_user_prediction(connected /\ ok, predictions, email,
                                 "clip.mp3", prediction, confidence)},
     f \in {fb_log_user_prediction(connected, ok, fb.predictions, email,
                                    "clip.mp3", prediction, confidence)} :
    /\ Len(predictions) < MaxPredictions
    /\ Len(fb.predictions) < MaxPredictions
    /\ predictions' = m.predictions
    /\ fb' = [fb EXCEPT !.predictions = f.predictions]
    /\ call' = Call("log_user_prediction", Returned(m.inserted), f.result)
    /\ UNCHANGED <<users, usage, today, nextKey>>
    /\ AdapterFrame

AdLogApiUsage ==
  \E email \in AdapterEmails, ok \in BOOLEAN :
  \E m \in {log_api_usage(connected /\ ok, users, usage, email,
                           "/detect-voice", "success", today)},
     f \in {fb_log_api_usage(connected, ok, fb.users, fb.usage, email,
                              "/detect-voice", "success", today)} :
    /\ Len(usage) < MaxUsageLogs /\ Len(fb.usage) < MaxUsageLogs
    /\ usage' = m.usage
    /\ users' = m.users
    /\ fb' = [fb EXCEPT !.usage = f.usage, !.users = f.users]
    /\ call' = Call("log_api_usage", Returned(m.inserted), f.result)
    /\ UNCHANGED <<predictions, today, nextKey>>
    /\ AdapterFrame

AdGetStatistics ==
  \E ok \in BOOLEAN :
    /\ call' = Call("get_statistics",
                    Returned(get_statistics(connected /\ ok, predictions)),
                    fb_get_statistics(connected, ok, fb.predictions))
    /\ UNCHANGED <<users, predictions, usage, fb, today, nextKey>>
    /\ AdapterFrame

AdGetUserStats ==
  \E email \in AdapterEmails, ok \in BOOLEAN :
    /\ call' = Call("get_user_stats",
                    Returned(get_user_stats(connected /\ ok, predictions, email)),
                    fb_get_user_stats(connected, ok, fb.predictions, email))
    /\ UNCHANGED <<users, predictions, usage, fb, today, nextKey>>
    /\ AdapterFrame

AdGetUserHistory ==
  \E email \in AdapterEmails, limit \in Limits, ok \in BOOLEAN :
    /\ call' = Call("get_user_history",
                    Returned(get_user_history(connected /\ ok, predictions,
                                              email, limit)),
                    fb_get_user_history(connected, ok, fb.predictions, email,
                                        limit))
    /\ UNCHANGED <<users, predictions, usage, fb, today, nextKey>>
    /\ AdapterFrame

AdGetUsageStats ==
  \E email \in AdapterEmails, ok \in BOOLEAN :
    /\ call' = Call("get_usage_stats",
                    Returned(get_usage_stats(connected /\ ok, usage, email, today)),
                    fb_get_usage_stats(connected, ok, fb.usage, email, today))
    /\ UNCHANGED <<users, predictions, usage, fb, today, nextKey>>
    /\ AdapterFrame

\* datetime.utcnow() passes midnight.
Midnight ==
  /\ today < MaxDays
  /\ today' = today + 1
  /\ UNCHANGED <<users, predictions, usage, fb, nextKey, call>>
  /\ AdapterFrame

NextAdapters ==
  \/ AdCreateUser \/ AdGetUserByEmail \/ AdGetUserByApiKey
  \/ AdLogPrediction \/ AdLogUserPrediction \/ AdLogApiUsage
  \/ AdGetStatistics \/ AdGetUserStats \/ AdGetUserHistory
  \/ AdGetUsageStats \/ Midnight

SpecAdapters == InitAdapters /\ [][NextAdapters]_vars

(***************************************************************************)
(* Every endpoint of main.py that reaches the store.                       *)
(***************************************************************************)
NextApi ==
  \/ DetectVoice \/ RegisterUser \/ LoginUser
  \/ GetMe \/ DashboardStats \/ DashboardHistory \/ GetStats

SpecApi == Init /\ [][NextApi]_vars

(***************************************************************************)
(* Adapter calls of several workers on one store, one store operation per  *)
(* step: log_api_usage (insert, then the counter update; on Firestore a    *)
(* query for the user's document in between), get_statistics (three counts *)
(* and an aggregate on Mongo, one stream on Firestore) and the insert of    *)
(* log_prediction.  Each worker makes one call.                            *)
(***************************************************************************)
Adapters == {"mongo", "firebase"}

FirstUser ==
  user_doc(EmailA, hash_password("password-one", "s1"), generate_api_key(1))

InitJobs ==
  /\ users = <<FirstUser>>
  /\ predictions = <<>>
  /\ connected = TRUE
  /\ issued = {}
  /\ registered = {EmailA}
  /\ nextKey = 2
  /\ resp = NoResp
  /\ audio = NoAudio
  /\ clf = NoClf
  /\ reg = [w \in 1..NumWorkers |-> Idle]
  /\ healthy = TRUE
  /\ files = {}
  /\ exc = NoExc
  /\ expl = NoExpl
  /\ fvec = NoFvec
  /\ usage = <<>>
  /\ fb = [NoFb EXCEPT !.users = <<FirstUser>>]
  /\ today = 0
  /\ call = NoCall
  /\ job = [w \in 1..NumWorkers |-> NoJob]

JobFrame ==
  /\ UNCHANGED <<connected, issued, registered, nextKey, resp, audio, clf, reg>>
  /\ UNCHANGED <<envVars, pureVars, today, call>>

TotalRequests(us, user_email) ==
  LET m == Matches(us, "email", user_email) IN
  IF m = {} THEN 0 ELSE us[CHOOSE i \in m : \A k \in m : i <= k].total_requests

\* The counter written back from the value the call read when it began.
inc_total_requests_Stale(us, user_email, seen) ==
  LET m == Matches(us, "email", user_email) IN
  IF m = {} THEN us
  ELSE [us EXCEPT ![CHOOSE i \in m : \A k \in m : i <= k].total_requests = seen + 1]

\* {'$inc': {'total_requests': 1}} and firestore.Increment(1): applied by the
\* store to the value it holds.
inc_total_requests(us, user_email, seen) == IncrementRequests(us, user_email)

\* usage_collection.insert_one(log_doc) / usage_ref.add(log_doc)
LogInsert(w) ==
  \E adapter \in Adapters :
    /\ job[w].pc = "idle"
    /\ IF adapter = "mongo"
       THEN /\ Len(usage) < MaxUsageLogs
            /\ usage' = Append(usage, usage_doc(EmailA, "/detect-voice",
                                                "success", today))
            /\ job' = [job EXCEPT ![w] =
                         [NoJob EXCEPT !.op = "log_api_usage", !.adapter = adapter,
                                       !.pc = "inserted",
                                       !.seen = TotalRequests(users, EmailA)]]
            /\ UNCHANGED fb
       ELSE /\ Len(fb.usage) < MaxUsageLogs
            /\ fb' = [fb EXCEPT !.usage =
                        Append(@, usage_doc(EmailA, "/detect-voice",
                                            "success", today))]
            /\ job' = [job EXCEPT ![w] =
                         [NoJob EXCEPT !.op = "log_api_usage", !.adapter = adapter,
                                       !.pc = "inserted",
                                       !.seen = TotalRequests(fb.users, EmailA)]]
            /\ UNCHANGED usage
    /\ UNCHANGED <<users, predictions>>
    /\ JobFrame

\* users_ref.where(email == user_email).limit(1).get() on Firestore.
LogQuery(w) ==
  /\ job[w].op = "log_api_usage" /\ job[w].adapter = "firebase"
  /\ job[w].pc = "inserted"
  /\ job' = [job EXCEPT ![w].pc = "queried"]
  /\ UNCHANGED <<users, predictions, usage, fb>>
  /\ JobFrame

\* users_collection.update_one(...) / doc.reference.update(...); when it
\* raises the except clause returns None and the log entry stays.
LogIncrement(w) ==
  \E ok \in BOOLEAN :
    /\ job[w].op = "log_api_usage"
    /\ \/ job[w].adapter = "mongo" /\ job[w].pc = "inserted"
       \/ job[w].adapter = "firebase" /\ job[w].pc = "queried"
    /\ job' = [job EXCEPT ![w].pc = "done", ![w].failed = ~ok]
    /\ IF ~ok THEN UNCHANGED <<users, fb>>
       ELSE IF job[w].adapter = "mongo"
       THEN /\ users' = inc_total_requests(users, EmailA, job[w].seen)
            /\ UNCHANGED fb
       ELSE /\ fb' = [fb EXCEPT !.users =
                        inc_total_requests(@, EmailA, job[w].seen)]
            /\ UNCHANGED users
    /\ UNCHANGED <<predictions, usage>>
    /\ JobFrame

\* collection.insert_one(document) of log_prediction, on both stores alike.
InsertPrediction ==
  \E probabilities \in {<<250, 750>>, <<750, 250>>} :
  \E r \in {predict(probabilities)} :
    /\ Len(predictions) < MaxPredictions
    /\ predictions' = log_prediction(TRUE, predictions, r.prediction,
                                     r.confidence, r.probabilities).predictions
    /\ fb' = [fb EXCEPT !.predictions =
                fb_log_prediction(TRUE, TRUE, @, r.prediction, r.confidence,
                                  r.probabilities).predictions]
    /\ UNCHANGED <<users, usage, job>>
    /\ JobFrame

\* total = count_documents({}); on Firestore the whole of get_statistics
\* works on the one snapshot predictions_ref.get() returned.
StatsTotal(w) ==
  \E adapter \in Adapters :
    /\ job[w].pc = "idle"
    /\ job' = [job EXCEPT ![w] =
         IF adapter = "mongo"
         THEN [NoJob EXCEPT !.op = "get_statistics", !.adapter = adapter,
                            !.pc = "total", !.total = Len(predictions)]
         ELSE LET st == fb_get_statistics(TRUE, TRUE, fb.predictions).value IN
              [NoJob EXCEPT !.op = "get_statistics", !.adapter = adapter,
                            !.pc = "done",
                            !.total = st.total_predictions,
                            !.ai_count = st.ai_generated_count,
                            !.human_count = st.human_count]]
    /\ UNCHANGED <<users, predictions, usage, fb>>
    /\ JobFrame

\* ai_count = count_documents({'prediction': 'AI_GENERATED'})
StatsAi(w) ==
  /\ job[w].op = "get_statistics" /\ job[w].pc = "total"
  /\ job' = [job EXCEPT ![w].pc = "ai",
                        ![w].ai_count = CountLabel(predictions, "AI_GENERATED")]
  /\ UNCHANGED <<users, predictions, usage, fb>>
  /\ JobFrame

\* human_count = count_documents({'prediction': 'HUMAN'}); the aggregate
\* that follows does not touch the counts.
StatsHuman(w) ==
  /\ job[w].op = "get_statistics" /\ job[w].pc = "ai"
  /\ job' = [job EXCEPT ![w].pc = "done",
                        ![w].human_count = CountLabel(predictions, "HUMAN")]
  /\ UNCHANGED <<users, predictions, usage, fb>>
  /\ JobFrame

NextJobs ==
  \/ InsertPrediction
  \/ \E w \in Workers :
       \/ LogInsert(w) \/ LogQuery(w) \/ LogIncrement(w)
       \/ StatsTotal(w) \/ StatsAi(w) \/ StatsHuman(w)

SpecJobs == InitJobs /\ [][NextJobs]_vars

(***************************************************************************)
(* Properties                                                              *)
(***************************************************************************)
AudioErrorCodes == {"INVALID_FORMAT", "AUDIO_TOO_SHORT", "AUDIO_TOO_LONG",
                    "PROCESSING_ERROR"}
KnownKeys == {API_KEY} \cup StoredKeys
Detect == resp.op = "detect"
BearerPresented == StartsWithBearer(resp.req.authorization)

\* C1: a /detect-voice request with neither a bearer token nor an api-key
\* header is answered 401 with error code AUTHENTICATION_REQUIRED.
C1_NoCredentialsRejected ==
  (Detect /\ ~BearerPresented /\ resp.req.api_key = NoHeader)
    => (resp.status = 401 /\ resp.detail.error = "AUTHENTICATION_REQUIRED")

\* C2: when a "Bearer " Authorization header and an api-key header are both
\* present, the bearer token alone decides: the outcome is the one the same
\* request has without the api-key header, a token that verifies
\* authenticates as its subject, and any other token is refused with 401
\* INVALID_TOKEN, also when the api key is a valid one.
C2_BearerDecides ==
  (Detect /\ BearerPresented /\ resp.req.api_key # NoHeader) =>
    LET token == resp.req.authorization[2]
        alone == DetectAuth(connected, users, resp.req.authorization, NoHeader)
    IN
    /\ resp.authenticated = ~alone.raised
    /\ resp.user = alone.user
    /\ ~resp.authenticated => (resp.status = alone.status /\ resp.detail = alone.detail)
    /\ token.typ = "jwt" => (resp.authenticated /\ resp.user = token.sub)
    /\ token.typ # "jwt" =>
         (~resp.authenticated /\ resp.status = 401
          /\ resp.detail.error = "INVALID_TOKEN")

C2_Witness ==
  /\ Detect /\ BearerPresented
  /\ resp.req.authorization[2].typ = "jwt"
  /\ resp.req.api_key = WrongKey
  /\ resp.authenticated

\* C3: an API key (the process-wide secret or a stored user key) presented
\* as `Authorization: Bearer <api_key>`, with no other credential, passes
\* authentication.
C3_BearerApiKeyAccepted ==
  (/\ Detect /\ BearerPresented
   /\ resp.req.authorization[2].typ = "key"
   /\ resp.req.authorization[2].key \in KnownKeys
   /\ resp.req.api_key = NoHeader)
    => resp.authenticated

\* C4: once a register call for an email has succeeded, every later register
\* call for it (a request that satisfies the request schema, so register_user
\* runs) is answered 400 USER_EXISTS and leaves the users collection as it was.
C4_DuplicateRegisterFails ==
  [][(/\ resp'.op = "register"
      /\ resp'.req.email \in registered
      /\ Len(resp'.req.password) >= MinPasswordLen)
       => (/\ resp'.status = 400
           /\ resp'.detail.error = "USER_EXISTS"
           /\ users' = users)]_vars

C4_Witness ==
  /\ resp.op = "register"
  /\ resp.req.email \in registered
  /\ resp.status = 400
  /\ resp.detail.error = "USER_EXISTS"
  /\ Len(users) >= 1

\* C5: no two user records share an email, under any interleaving of
\* concurrent registrations.
C5_UniqueEmails ==
  \A i, j \in 1..Len(users) : users[i].email = users[j].email => i = j

\* C6: a login for an email without a user record and a login with a wrong
\* password for an email that has one get the same response: 401 with the
\* INVALID_CREDENTIALS body.
C6_LoginNoLeak ==
  /\ \A e1, e2 \in Emails, p1, p2 \in LoginPasswords :
       (/\ ~get_user_by_email(connected, users, e1).found
        /\ get_user_by_email(connected, users, e2).found
        /\ ~verify_password(p2, get_user_by_email(connected, users, e2).password_hash))
         => LoginResult(connected, users, e1, p1) = LoginResult(connected, users, e2, p2)
  /\ (resp.op = "login" /\ resp.status # 200) =>
       (/\ resp.status = 401
        /\ resp.detail = [kind |-> "body", error |-> "INVALID_CREDENTIALS",
                          message |-> "Invalid email or password"]
        /\ resp.out = NoOut)

C6_Witness ==
  /\ resp.op = "login"
  /\ resp.status = 401
  /\ get_user_by_email(connected, users, resp.req.email).found
  /\ \E e \in Emails : EmailRegexMatch(e) /\ ~get_user_by_email(connected, users, e).found

C8_AudioErrorsClassified ==
  /\ (audio.called /\ ~audio.result.ok) =>
       (/\ audio.result.exc = "VoiceDetectionError"
        /\ audio.result.error_code \in AudioErrorCodes)
  /\ (Detect /\ resp.authenticated /\ audio.called /\ ~audio.result.ok)
       => resp.status = 400

C8_Witness ==
  /\ Detect /\ resp.authenticated
  /\ audio.called /\ audio.result.error_code = "INVALID_FORMAT"
  /\ resp.status = 400

\* C9: a 200 response of /detect-voice has a prediction among the two labels
\* and a confidence in [0,1]; the record logged for it has the same label and
\* a confidence in [0,1].
C9_ResponseRanges ==
  (Detect /\ resp.status = 200) =>
    /\ resp.out.prediction \in Labels
    /\ 0 <= resp.out.confidence /\ resp.out.confidence <= ProbScale
    /\ resp.out.log_id # 0 =>
         (/\ resp.out.log_id \in 1..Len(predictions)
          /\ predictions[resp.out.log_id].prediction = resp.out.prediction
          /\ 0 <= predictions[resp.out.log_id].confidence
          /\ predictions[resp.out.log_id].confidence <= ProbScale)

C9_Witness ==
  /\ Detect /\ resp.status = 200
  /\ resp.out.log_id # 0
  /\ resp.out.prediction = "HUMAN"

\* C10: predict maps class index 0 to AI_GENERATED and 1 to HUMAN, the
\* confidence is the probability at the predicted class's index, and the
\* probability vector comes back unchanged.
C10_PredictMapping ==
  clf.called =>
    /\ clf.index = 0 => (/\ clf.result.prediction = "AI_GENERATED"
                         /\ clf.result.confidence = clf.input[1])
    /\ clf.index = 1 => (/\ clf.result.prediction = "HUMAN"
                         /\ clf.result.confidence = clf.input[2])
    /\ clf.result.probabilities = clf.input

C10_Witness ==
  /\ clf.called /\ clf.index = 1
  /\ clf.result.prediction = "HUMAN"
  /\ clf.input[1] # clf.input[2]

\* features.get(key, 0), as the claims read it.
ValueOr0(f, k) == IF k \in DOMAIN f THEN f[k] ELSE 0

\* C11: generate_explanation is three threshold ladders with each boundary
\* value in the upper bucket (flatness, energy variation and zcr deviation
\* in thousandths): pitch_variance < 500 low, < 2000 medium, else high;
\* spectral_flatness_mean < 0.1 high, < 0.3 medium, else low;
\* energy_variation + 10 * zcr_std < 0.5 absent, < 1.5 minimal, else present.
\* A missing feature counts as 0, and each output field is the same for any
\* other features and prediction that agree on the field's own inputs.
C11_ExplanationLadders ==
  expl.called =>
    LET f == expl.features
        r == expl.result
        pv == ValueOr0(f, "pitch_variance")
        sf == ValueOr0(f, "spectral_flatness_mean")
        score == ValueOr0(f, "energy_variation") + 10 * ValueOr0(f, "zcr_std")
    IN
    /\ DOMAIN r = {"pitch_variance", "spectral_smoothness", "micro_variations"}
    /\ r.pitch_variance =
         (IF pv < 500 THEN "low" ELSE IF pv < 2000 THEN "medium" ELSE "high")
    /\ r.spectral_smoothness =
         (IF sf < 100 THEN "high" ELSE IF sf < 300 THEN "medium" ELSE "low")
    /\ r.micro_variations =
         (IF score < 500 THEN "absent" ELSE IF score < 1500 THEN "minimal"
          ELSE "present")
    /\ \A g \in FeatureDicts, q \in Labels :
         LET r2 == generate_explanation(g, q) IN
         /\ ValueOr0(g, "pitch_variance") = pv
              => r2.pitch_variance = r.pitch_variance
         /\ ValueOr0(g, "spectral_flatness_mean") = sf
              => r2.spectral_smoothness = r.spectral_smoothness
         /\ (/\ ValueOr0(g, "energy_variation") = ValueOr0(f, "energy_variation")
             /\ ValueOr0(g, "zcr_std") = ValueOr0(f, "zcr_std"))
              => r2.micro_variations = r.micro_variations

C11_Witness ==
  /\ expl.called
  /\ "pitch_variance" \notin DOMAIN expl.features
  /\ ValueOr0(expl.features, "spectral_flatness_mean") = 300
  /\ ValueOr0(expl.features, "energy_variation") = 100
  /\ ValueOr0(expl.features, "zcr_std") = 40
  /\ expl.result = [pitch_variance |-> "low", spectral_smoothness |-> "low",
                    micro_variations |-> "minimal"]

\* Pairing a name list with a vector, as dict(zip(names, vector)) does.
Zip(names, vector) ==
  [n \in {names[i] : i \in 1..Len(names)} |->
     vector[CHOOSE i \in 1..Len(names) :
              names[i] = n /\ \A j \in 1..Len(names) : names[j] = n => j <= i]]

\* C12: the feature vector has 22 entries in the order of feature_order;
\* that order equals, position by position, train_model's feature_names,
\* get_feature_importance's feature_names and the keys of both dataset
\* generators; no name occurs twice, and zipping the names with the vector
\* gives back the dict of extract_all_features.
C12_FeatureOrder ==
  fvec.called =>
    /\ Len(fvec.vector) = 22
    /\ Len(feature_order) = 22
    /\ feature_order = train_feature_names
    /\ feature_order = importance_feature_names
    /\ feature_order = ai_sample_keys
    /\ feature_order = human_sample_keys
    /\ \A i, j \in 1..Len(feature_order) :
         feature_order[i] = feature_order[j] => i = j
    /\ DOMAIN fvec.features = {feature_order[i] : i \in 1..Len(feature_order)}
    /\ Zip(feature_order, fvec.vector) = fvec.features
    /\ Zip(train_feature_names, fvec.vector) = fvec.features

C12_Witness ==
  /\ fvec.called
  /\ fvec.clip.voiced
  /\ Len(fvec.vector) = 22
  /\ fvec.vector[8] # fvec.vector[9]
  /\ fvec.vector[8] = fvec.features["pitch_variance"]

C14_AdaptersNeverRaise ==
  call.op # "none" => (~call.mongo.raised /\ ~call.firebase.raised)

\* C15: run on the same operation from equal stored data and the same
\* connected status, DatabaseManager and FirebaseManager answer alike: the
\* same result for every read and write, and a failure signalled the same way.
C15_AdaptersInterchangeable ==
  /\ call.op # "none" => call.mongo = call.firebase
  /\ fb.users = users /\ fb.predictions = predictions /\ fb.usage = usage

\* C16: once decode_base64_to_audio has returned or raised, on every exit
\* path, neither the temporary .mp3 file nor the temporary .wav file it
\* created is still on disk.
C16_NoTempFilesLeft ==
  /\ audio.called => audio.left = {}
  /\ files = {}

\* C17: every error response of the handlers carries a structured body with
\* an error code and a message; none has a bare string as its detail (422 is
\* the framework's answer to a request the model of the body rejects).
C17_StructuredErrors ==
  (resp.status >= 400 /\ resp.status # 422) =>
    /\ resp.detail.kind = "body"
    /\ resp.detail.error # ""
    /\ resp.detail.message # ""

\* C18: every error code the program uses is a key of ERROR_MESSAGES: no
\* response body falls back to UNKNOWN_ERROR, and every code the audio
\* decoder raises is registered.
C18_CodesRegistered ==
  /\ resp.detail.kind = "body" => resp.detail.error \in DOMAIN ERROR_MESSAGES
  /\ (audio.called /\ ~audio.result.ok) =>
        audio.result.error_code \in DOMAIN ERROR_MESSAGES

GenericMessages == {"Model not initialized. Please contact administrator.",
                    "An unexpected error occurred"}

\* C19: in detect_voice an HTTPException raised inside keeps its own status
\* and body; VoiceDetectionError and ValueError give 400; FileNotFoundError
\* and any other exception give 500 with a fixed generic message, so the
\* body of a 500 response never depends on the exception's text.
C19_ExceptionMapping ==
  (Detect /\ exc.caught) =>
    /\ exc.type = "HTTPException" =>
          (resp.status = exc.status /\ resp.detail = exc.detail)
    /\ exc.type \in {"VoiceDetectionError", "ValueError"} => resp.status = 400
    /\ exc.type = "FileNotFoundError" =>
          /\ resp.status = 500
          /\ resp.detail =
               StringDetail("Model not initialized. Please contact administrator.")
    /\ exc.type \notin {"HTTPException", "VoiceDetectionError", "ValueError",
                        "FileNotFoundError"} =>
          /\ resp.status = 500
          /\ resp.detail = StringDetail("An unexpected error occurred")
    /\ resp.status = 500 =>
          /\ resp.detail.message \in GenericMessages
          /\ resp.detail.message # exc.text
          /\ resp.out = NoOut

\* An exception carrying a file path was answered 500.
C19_Witness ==
  /\ Detect /\ exc.caught
  /\ exc.type \in {"FileNotFoundError", "Exception"}
  /\ exc.text = "/srv/model/voice_classifier.pkl"
  /\ resp.status = 500

\* C20: GET /auth/me, /dashboard/stats and /dashboard/history answer 200 only
\* to a two-part Bearer header whose token decodes to a subject that names a
\* stored user, and what they return is that user's; no header is refused
\* with 401 UNAUTHORIZED, a malformed header or a token that does not decode
\* to a subject with 401 INVALID_TOKEN, a subject the store does not return
\* with 404 USER_NOT_FOUND, and a refused request gets no data.
C20_AccountAccess ==
  [][(resp'.op \in AccountOps /\ healthy' = healthy) =>
      LET a == resp'.req.authorization
          out == resp'.out
          wellformed == Len(a) = 2 /\ Lower(a[1]) = "bearer"
          decodes == wellformed /\ a[2].typ = "jwt" /\ a[2].sub # NoSub
          owner == IF decodes
                   THEN {i \in 1..Len(users) : users[i].email = a[2].sub}
                   ELSE {}
      IN
      /\ resp'.status = 200 =>
            /\ decodes /\ owner # {} /\ Up
            /\ resp'.authenticated /\ resp'.user = a[2].sub
            /\ resp'.op = "me" =>
                  /\ out.user_email = a[2].sub
                  /\ \E i \in owner : out.api_key = users[i].api_key
            /\ resp'.op = "dashboard_stats" =>
                  /\ \E i \in owner : out.api_key = users[i].api_key
                  /\ out.stats = get_user_stats(TRUE, predictions, a[2].sub)
                  /\ out.usage_stats =
                       get_usage_stats(TRUE, usage, a[2].sub, today)
            /\ resp'.op = "dashboard_history" =>
                  /\ out.total = Len(out.predictions)
                  /\ \A i \in 1..Len(out.predictions) :
                        out.predictions[i].user_email = a[2].sub
      /\ Len(a) = 0 =>
            /\ resp'.status = 401
            /\ resp'.detail = create_error_response("UNAUTHORIZED")
      /\ (Len(a) > 0 /\ ~decodes) =>
            /\ resp'.status = 401
            /\ resp'.detail = create_error_response("INVALID_TOKEN")
      /\ (decodes /\ (owner = {} \/ ~Up)) =>
            /\ resp'.status = 404
            /\ resp'.detail = create_error_response("USER_NOT_FOUND")
      /\ resp'.status # 200 => (out = NoOut /\ ~resp'.authenticated)
  ]_vars

\* With two users stored, one of them read its own dashboard.
C20_Witness ==
  /\ resp.op = "dashboard_stats" /\ resp.status = 200
  /\ Len(users) = 2
  /\ resp.out.api_key = users[2].api_key

\* C21: GET /stats answers with statistics only when the Authorization header
\* has exactly two parts, the first "bearer" in any case and the second the
\* process-wide API_KEY; every other request (no header, another scheme, a
\* registered user's key, a valid JWT) gets 401 and get_statistics is not
\* called.
C21_StatsNeedsSecret ==
  resp.op = "stats" =>
    LET a == resp.req.authorization
        secret == /\ Len(a) = 2
                  /\ a[1] \in {"Bearer", "bearer"}
                  /\ a[2] = KeyToken(API_KEY)
    IN
    /\ secret => (resp.status = 200 /\ resp.authenticated)
    /\ ~secret =>
         /\ resp.status = 401
         /\ ~resp.authenticated
         /\ resp.out = NoOut

\* The secret got statistics over a stored prediction.
C21_Witness ==
  /\ resp.op = "stats" /\ resp.status = 200
  /\ resp.out.statistics.total_predictions = 1

LogJobs(adapter) ==
  {w \in Workers : job[w].op = "log_api_usage" /\ job[w].adapter = adapter}

CountFor(logs, user_email) ==
  Cardinality({i \in 1..Len(logs) : logs[i].user_email = user_email})

\* C22: when N concurrent log_api_usage calls for one existing user have all
\* completed without a storage error, whatever their interleaving, the
\* user's total_requests is its initial value plus N and exactly N usage log
\* entries for that email were appended: on the Mongo adapter and on the
\* Firebase adapter.
C22_NoLostIncrement ==
  /\ (\A w \in LogJobs("mongo") : job[w].pc = "done" /\ ~job[w].failed) =>
        /\ TotalRequests(users, EmailA) = Cardinality(LogJobs("mongo"))
        /\ CountFor(usage, EmailA) = Cardinality(LogJobs("mongo"))
  /\ (\A w \in LogJobs("firebase") : job[w].pc = "done" /\ ~job[w].failed) =>
        /\ TotalRequests(fb.users, EmailA) = Cardinality(LogJobs("firebase"))
        /\ CountFor(fb.usage, EmailA) = Cardinality(LogJobs("firebase"))

\* Every worker has completed a call on the Mongo adapter.
C22_Witness ==
  /\ LogJobs("mongo") = Workers
  /\ \A w \in Workers : job[w].pc = "done" /\ ~job[w].failed
  /\ TotalRequests(users, EmailA) = NumWorkers

\* C29: in every reachable state, also between the two writes of a
\* log_api_usage call and after a call whose counter update failed, the
\* total_requests stored on a user that exists from the start equals the
\* number of usage log entries carrying that user's email.
C29_CounterMatchesLogs ==
  /\ TotalRequests(users, EmailA) = CountFor(usage, EmailA)
  /\ TotalRequests(fb.users, EmailA) = CountFor(fb.usage, EmailA)

\* C30: every non-empty result of get_statistics has total_predictions =
\* ai_generated_count + human_count, also while prediction records are
\* inserted between the count queries of the Mongo adapter.
C30_CountsAddUp ==
  \A w \in Workers :
    (job[w].op = "get_statistics" /\ job[w].pc = "done") =>
      job[w].total = job[w].ai_count + job[w].human_count

\* The stored users a login with these credentials matches.
Account(us, email, password) ==
  {i \in 1..Len(us) : /\ us[i].email = email
                       /\ verify_password(password, us[i].password_hash)}

\* C23: while the store answers, a register that succeeds (201) for email e
\* and password p stores e with the api_key it returns; a login with (e, p)
\* then returns 200 with user_email e, that same api_key and an access token
\* whose subject is e; and that token, sent as Bearer, is accepted by
\* get_current_user as user e: GET /dashboard/stats returns 200.
C23_RegisterLoginRoundTrip ==
  [][(healthy' = healthy /\ Up) =>
      LET req == resp'.req
          out == resp'.out
          a == req.authorization
      IN
      /\ (resp'.op = "register" /\ resp'.status = 201) =>
            /\ Account(users, req.email, req.password) = {}
            /\ \E i \in Account(users', req.email, req.password) :
                  users'[i].api_key = out.api_key
            /\ decode_access_token(out.access_token) =
                 [decoded |-> TRUE, sub |-> req.email]
      /\ (resp'.op = "login" /\ Account(users, req.email, req.password) # {}) =>
            /\ resp'.status = 200
            /\ out.user_email = req.email
            /\ \A i \in Account(users, req.email, req.password) :
                  users[i].api_key = out.api_key
            /\ decode_access_token(out.access_token) =
                 [decoded |-> TRUE, sub |-> req.email]
            /\ req.email \in issued'
      /\ (/\ resp'.op = "dashboard_stats"
          /\ Len(a) = 2 /\ a[1] = "Bearer" /\ a[2] \in {Jwt(e) : e \in issued}) =>
            /\ resp'.status = 200
            /\ resp'.user = a[2].sub
            /\ \E i \in 1..Len(users) :
                  /\ users[i].email = a[2].sub
                  /\ users[i].api_key = out.api_key
  ]_vars

\* The second of two registered users logged in and got its own key.
C23_Witness ==
  /\ resp.op = "login" /\ resp.status = 200
  /\ Len(users) = 2
  /\ resp.out.user_email = users[2].email
  /\ resp.out.api_key = users[2].api_key

\* A /detect-voice request that authenticated as a registered user.
DetectByUser == resp'.op = "detect" /\ resp'.authenticated /\ resp'.user # Anonymous

\* C24: every POST /detect-voice made by an authenticated registered user, by
\* JWT or by the user's own API key, appends one usage log entry with that
\* user's email and the endpoint name and increments that user's
\* total_requests by one.
C24_DetectLogsUsage ==
  [][DetectByUser =>
      /\ Len(usage') = Len(usage) + 1
      /\ usage'[Len(usage')].user_email = resp'.user
      /\ usage'[Len(usage')].endpoint = "/detect-voice"
      /\ TotalRequests(users', resp'.user) = TotalRequests(users, resp'.user) + 1
  ]_vars

\* C25: after a successful POST /detect-voice by an authenticated registered
\* user u the prediction record written carries u's email: u's history
\* contains it, get_user_stats(u).total_tests has grown by one, and no other
\* user's history has changed.
C25_DetectLogsUserPrediction ==
  [][(DetectByUser /\ resp'.status = 200 /\ Up) =>
      /\ Len(get_user_history(TRUE, predictions', resp'.user, 50)) =
           Len(get_user_history(TRUE, predictions, resp'.user, 50)) + 1
      /\ get_user_stats(TRUE, predictions', resp'.user).total_tests =
           get_user_stats(TRUE, predictions, resp'.user).total_tests + 1
      /\ \A e \in {EmailA, EmailB} \ {resp'.user} :
           get_user_history(TRUE, predictions', e, 50) =
             get_user_history(TRUE, predictions, e, 50)
  ]_vars

\* The trend of a history given newest first: the mean of the newest five
\* against the mean of the five before, with a margin of 0.05.
ClaimedTrend(newest) ==
  IF Len(newest) = 0 THEN "No data"
  ELSE IF Len(newest) < 10 THEN "Stable"
  ELSE LET recent == SumConfidence(SubSeq(newest, 1, 5))
           previous == SumConfidence(SubSeq(newest, 6, 10))
       IN IF recent - previous > 250 THEN "Improving"
          ELSE IF previous - recent > 250 THEN "Declining"
          ELSE "Stable"

\* C26: get_user_stats, of either adapter, reports the trend of the user's ten
\* most recent records: "No data" with none, "Stable" with one to nine, and
\* with ten or more "Improving" or "Declining" when the mean confidence of
\* the newest five is above or below that of the previous five by more than
\* 0.05, "Stable" otherwise.
C26_TrendOfLastTen ==
  call.op = "get_user_stats" =>
    \A r \in {call.mongo.value, call.firebase.value} :
      ~r.empty =>
        \E e \in AdapterEmails :
          /\ r.total_tests = Len(ByUser(predictions, e))
          /\ r.trend = ClaimedTrend(NewestFirst(ByUser(predictions, e), 10))

\* C27: detect_voice runs authentication, audio decoding and validation,
\* feature extraction, classification, explanation, prediction logging and
\* the response in that order, and a request that fails at a step performs
\* none of the later ones: a request refused for authentication or for its
\* audio never reaches the classifier and writes no prediction record, the
\* classifier runs only on audio that passed, a record is written only after
\* the classifier ran, and a successful request writes at most one record.
C27_StepsInOrder ==
  [][resp'.op = "detect" =>
      /\ ~resp'.authenticated =>
            (~audio'.called /\ ~clf'.called /\ predictions' = predictions)
      /\ (~audio'.called \/ ~audio'.result.ok) =>
            (~clf'.called /\ predictions' = predictions)
      /\ clf'.called =>
            (resp'.authenticated /\ audio'.called /\ audio'.result.ok)
      /\ predictions' # predictions =>
            /\ clf'.called
            /\ Len(predictions') = Len(predictions) + 1
            /\ SubSeq(predictions', 1, Len(predictions)) = predictions
            /\ predictions'[Len(predictions')].prediction = clf'.result.prediction
      /\ resp'.status = 200 =>
            (clf'.called /\ Len(predictions') <= Len(predictions) + 1)
  ]_vars

\* A request went through every step and wrote its one record.
C27_Witness ==
  /\ resp.op = "detect" /\ resp.status = 200
  /\ clf.called
  /\ Len(predictions) = 1
  /\ resp.out.log_id = 1

ReadOps == {"login", "me", "dashboard_stats", "dashboard_history", "stats",
            "detect"}

\* C28: a user record is created only by a successful register, is never
\* deleted, and keeps its email, password_hash and api_key; total_requests is
\* the only field that changes, and only through log_api_usage; login,
\* /auth/me, the dashboard reads, /stats and /detect-voice leave the users
\* collection as it is.
C28_UsersFrame ==
  [][/\ Len(users') >= Len(users)
     /\ \A i \in 1..Len(users) :
          /\ users'[i].email = users[i].email
          /\ users'[i].password_hash = users[i].password_hash
          /\ users'[i].api_key = users[i].api_key
     /\ Len(users') > Len(users) =>
          /\ resp'.op = "register" /\ resp'.status = 201
          /\ Len(users') = Len(users) + 1
          /\ users'[Len(users')].email = resp'.req.email
          /\ users'[Len(users')].total_requests = 0
     /\ (\E i \in 1..Len(users) :
           users'[i].total_requests # users[i].total_requests) =>
          /\ Len(usage') = Len(usage) + 1
          /\ resp' = resp
          /\ users' = IncrementRequests(users, usage'[Len(usage')].user_email)
     /\ (resp' # resp /\ resp'.op \in ReadOps) => users' = users
  ]_vars

\* With two users registered, a clip sent by the second has been classified
\* and logged, and both records are as register wrote them.
C28_Witness ==
  /\ Len(users) = 2
  /\ resp.op = "detect" /\ resp.status = 200
  /\ Len(predictions) = 1
  /\ \A i \in 1..2 : users[i].total_requests = 0

====
